---- MODULE Spec2Model ----
(***************************************************************************)
(* Model of the change-detection and reconciliation engine of the NIST     *)
(* ISODB mirror: src/src/sync.py, src/src/database.py, src/src/utils.py,   *)
(* src/src/scraper.py and the sync command of src/main.py.                 *)
(*                                                                         *)
(* Python None is the string "None"; a dict is a TLA+ record (a function   *)
(* from field names); a list is a sequence.  An MD5 digest is modelled by  *)
(* the serialized value it is computed from (no collisions).               *)
(***************************************************************************)
EXTENDS Integers, Sequences, FiniteSets, TLC

VARIABLES
    upstream,  \* which responses the remote API can serve (the environment of the run)
    db,        \* the SQLite store: the rows of every table, last_sync, audit_log
    backups,   \* the backup directory: file name -> copy of the store
    clock,     \* wall clock in seconds (datetime.utcnow())
    pc,        \* position of the running command
    run,       \* locals of the running sync(): flags, fetched data, change sets, result
    pf         \* scratch of the pure-function specifications: inputs and outputs

vars == <<upstream, db, backups, clock, pc, run, pf>>

None == "None"

(***************************************************************************)
(* Generic helpers on sequences.                                            *)
(***************************************************************************)
Range(s) == {s[i] : i \in DOMAIN s}

RECURSIVE SeqsUpTo(_, _)
SeqsUpTo(S, n) ==
    IF n = 0 THEN {<<>>}
    ELSE LET shorter == SeqsUpTo(S, n - 1)
         IN  shorter \cup {Append(s, x) : s \in {t \in shorter : Len(t) = n - 1}, x \in S}

NoDup(s) == \A i, j \in DOMAIN s : i # j => s[i] # s[j]

\* dict.get(field, default)
Get(data, field, default) == IF field \in DOMAIN data THEN data[field] ELSE default

(***************************************************************************)
(* src/src/utils.py: calculate_checksum.                                    *)
(***************************************************************************)
ChecksumOfWholeRecord(data) == data

calculate_checksum(data) ==
    << Get(data, "name", ""),
       Get(data, "synonyms", ""),
       Get(data, "formula", ""),
       Get(data, "category", ""),
       Get(data, "isotherm_count", 0) >>

(***************************************************************************)
(* src/src/sync.py: TableChanges, detect_table_changes.                     *)
(*                                                                         *)
(* local_rows is the result of SELECT id, checksum FROM table: a sequence  *)
(* of <<id, checksum>> with distinct ids, in the order SQLite returned it. *)
(***************************************************************************)
EmptyDict == [k \in {} |-> None]

TableChanges(table, id_col, new, modified, deleted) ==
    [table_name |-> table, id_column |-> id_col, new |-> new,
     modified |-> modified, deleted |-> deleted, metadata |-> EmptyDict]

total_changes(changes) ==
    Len(changes.new) + Len(changes.modified) + Len(changes.deleted)

is_empty(changes) == total_changes(changes) = 0

\* local_checksums = {row[id]: row["checksum"] for row in rows}
LocalIds(local_rows) == {local_rows[i][1] : i \in DOMAIN local_rows}

LocalChecksum(local_rows, id) ==
    LET i == CHOOSE j \in DOMAIN local_rows : local_rows[j][1] = id
    IN  local_rows[i][2]

\* fetched_by_id = {r[id_column]: r for r in fetched_records}: a dict keeps the
\* position of a key's first occurrence and the value of its last occurrence.
FetchedByIdNoDedup(fetched_records, id_col) == fetched_records

fetched_by_id(fetched_records, id_col) ==
    LET firsts == SelectSeq([i \in DOMAIN fetched_records |-> i],
                     LAMBDA i : \A j \in 1..(i - 1) :
                                  fetched_records[j][id_col] # fetched_records[i][id_col])
        last(id) == CHOOSE j \in DOMAIN fetched_records :
                       /\ fetched_records[j][id_col] = id
                       /\ \A k \in (j + 1)..Len(fetched_records) :
                              fetched_records[k][id_col] # id
    IN  [n \in DOMAIN firsts |->
            fetched_records[last(fetched_records[firsts[n]][id_col])]]

DetectModifiedAsNew(fetched_records, table, id_col, local_rows) ==
    LET byId    == fetched_by_id(fetched_records, id_col)
        ids     == {byId[i][id_col] : i \in DOMAIN byId}
        localId == [i \in DOMAIN local_rows |-> local_rows[i][1]]
    IN  TableChanges(table, id_col,
            SelectSeq(byId, LAMBDA r :
                \/ r[id_col] \notin LocalIds(local_rows)
                \/ r.checksum # LocalChecksum(local_rows, r[id_col])),
            <<>>,
            SelectSeq(localId, LAMBDA id : id \notin ids))

\* A reconciliation that classifies no record as Modified.
DetectNothingModified(fetched_records, table, id_col, local_rows) ==
    LET byId    == fetched_by_id(fetched_records, id_col)
        ids     == {byId[i][id_col] : i \in DOMAIN byId}
        localId == [i \in DOMAIN local_rows |-> local_rows[i][1]]
    IN  TableChanges(table, id_col,
            SelectSeq(byId, LAMBDA r : r[id_col] \notin LocalIds(local_rows)),
            <<>>,
            SelectSeq(localId, LAMBDA id : id \notin ids))

detect_table_changes(fetched_records, table, id_col, local_rows) ==
    LET byId    == fetched_by_id(fetched_records, id_col)
        ids     == {byId[i][id_col] : i \in DOMAIN byId}
        localId == [i \in DOMAIN local_rows |-> local_rows[i][1]]
    IN  TableChanges(table, id_col,
            \* for record_id, record in fetched_by_id.items()
            SelectSeq(byId, LAMBDA r : r[id_col] \notin LocalIds(local_rows)),
            SelectSeq(byId, LAMBDA r :
                /\ r[id_col] \in LocalIds(local_rows)
                /\ r.checksum # LocalChecksum(local_rows, r[id_col])),
            \* for record_id in local_checksums
            SelectSeq(localId, LAMBDA id : id \notin ids))

(***************************************************************************)
(* src/src/sync.py: check_suspicious_changes.  The threshold is the        *)
(* rational ThresholdNum / ThresholdDen (0.1); len(deleted) / count >      *)
(* threshold is compared exactly, as the float comparison does for counts  *)
(* of this size.                                                           *)
(***************************************************************************)
ThresholdNum == 1
ThresholdDen == 10

\* The warning text carries the count, the table, the ratio and the threshold.
Warning(table, n_deleted, count, num, den) ==
    "Warning: " \o ToString(n_deleted) \o " " \o table \o " ("
    \o ToString(n_deleted) \o "/" \o ToString(count) \o ") would be deleted."
    \o " This exceeds the " \o ToString(num) \o "/" \o ToString(den)
    \o " threshold. Use --force to apply these changes."

CheckSuspiciousNever(changes, current_count, num, den) == None

CheckSuspiciousGE(changes, current_count, num, den) ==
    IF current_count = 0 THEN None
    ELSE IF Len(changes.deleted) * den >= num * current_count
         THEN Warning(changes.table_name, Len(changes.deleted), current_count, num, den)
         ELSE None

check_suspicious_changes(changes, current_count, num, den) ==
    IF current_count = 0 THEN None
    ELSE IF Len(changes.deleted) * den > num * current_count
         THEN Warning(changes.table_name, Len(changes.deleted), current_count, num, den)
         ELSE None

(***************************************************************************)
(* src/src/scraper.py: the normalizers.  A raw record is what the API      *)
(* returns; the model keeps the identity field, the fields the checksum    *)
(* reads and, per collection, fields the checksum does not read.  A list   *)
(* of synonyms has at most one element, so "; ".join is that element.      *)
(***************************************************************************)
JoinSynonyms(synonyms_raw) ==
    IF synonyms_raw = <<>> THEN None ELSE synonyms_raw[1]

WithChecksum(normalized) ==
    [f \in DOMAIN normalized \cup {"checksum"} |->
        IF f = "checksum" THEN calculate_checksum(normalized) ELSE normalized[f]]

normalize_material(raw) ==
    WithChecksum([material_id    |-> raw.hashkey,
                  name           |-> raw.name,
                  synonyms       |-> JoinSynonyms(raw.synonyms),
                  formula        |-> raw.formula,
                  category       |-> raw.family,
                  isotherm_count |-> 0,
                  last_updated   |-> None])

normalize_isotherm(raw) ==
    WithChecksum([filename         |-> raw.filename,
                  doi              |-> raw.DOI,
                  adsorbent_id     |-> raw.adsorbent.hashkey,
                  category         |-> raw.category,
                  temperature      |-> raw.temperature,
                  data_point_count |-> Len(raw.isotherm_data)])

normalize_gas(raw) ==
    WithChecksum([inchikey |-> raw.InChIKey,
                  name     |-> raw.name,
                  synonyms |-> JoinSynonyms(raw.synonyms)])

normalize_biblio(raw) ==
    WithChecksum([doi     |-> raw.DOI,
                  title   |-> raw.title,
                  year    |-> raw.year,
                  authors |-> raw.authors])

normalize(table, raw) ==
    CASE table = "materials"    -> normalize_material(raw)
      [] table = "isotherms"    -> normalize_isotherm(raw)
      [] table = "gases"        -> normalize_gas(raw)
      [] table = "bibliography" -> normalize_biblio(raw)

\* counts[material_id] of fetch_isotherms_count, for the isotherm list it got
\* ({} when the request failed: every count is then 0).
isotherms_count(raw_isotherms, material_id) ==
    Cardinality({i \in DOMAIN raw_isotherms :
                    raw_isotherms[i].adsorbent.hashkey = material_id})

enrich_one(material, count) ==
    LET counted == [material EXCEPT !.isotherm_count = count]
    IN  [counted EXCEPT !.checksum = calculate_checksum(counted)]

enrich_with_isotherm_counts(materials, raw_isotherms) ==
    [i \in DOMAIN materials |->
        enrich_one(materials[i], isotherms_count(raw_isotherms, materials[i].material_id))]

extract_data_points(raw_isotherm) ==
    [i \in DOMAIN raw_isotherm.isotherm_data |->
        [isotherm_filename |-> raw_isotherm.filename,
         pressure          |-> raw_isotherm.isotherm_data[i].pressure]]

RECURSIVE all_data_points(_)
all_data_points(raw_isotherms) ==
    IF raw_isotherms = <<>> THEN <<>>
    ELSE extract_data_points(Head(raw_isotherms)) \o all_data_points(Tail(raw_isotherms))

(***************************************************************************)
(* src/src/database.py.  A table is the set of its rows; a row of a        *)
(* collection is the record that was upserted.  isotherm_data_points rows  *)
(* get their id from the AUTOINCREMENT counter point_seq.                  *)
(***************************************************************************)
AllTables == <<"materials", "isotherms", "gases", "bibliography">>

id_column(table) ==
    CASE table = "materials"    -> "material_id"
      [] table = "isotherms"    -> "filename"
      [] table = "gases"        -> "inchikey"
      [] table = "bibliography" -> "doi"

\* init_db on a fresh file: every table exists and is empty.
init_db ==
    [materials            |-> {},
     isotherms            |-> {},
     gases                |-> {},
     bibliography         |-> {},
     isotherm_data_points |-> {},
     point_seq            |-> 0,
     last_sync            |-> None,
     audit_log            |-> <<>>]

get_table_count(d, table) == Cardinality(d[table])

\* The possible results of SELECT id, checksum FROM table (no ORDER BY): the
\* rows in any order.
get_table_checksums(d, table, id_col) ==
    {rows \in [1..Cardinality(d[table]) -> {<<r[id_col], r.checksum>> : r \in d[table]}] :
        \A i, j \in DOMAIN rows : i # j => rows[i] # rows[j]}

\* The columns migrate_add_data_fetched_column added to isotherms, with their
\* defaults, for a row written without them.
WithFetchColumns(row) ==
    [f \in DOMAIN row \cup {"data_fetched", "data_fetched_at"} |->
        IF f \in DOMAIN row THEN row[f]
        ELSE IF f = "data_fetched" THEN 0 ELSE None]

\* One INSERT OR REPLACE: a row with the same primary key is replaced, and a
\* column the statement does not list gets its default; the data point table
\* has no key among the inserted columns, so it always grows.
insert_or_replace(d, table, record) ==
    IF table = "isotherm_data_points"
    THEN [d EXCEPT !.isotherm_data_points =
                       @ \cup {[id                |-> d.point_seq + 1,
                                isotherm_filename |-> record.isotherm_filename,
                                pressure          |-> record.pressure]},
                   !.point_seq = @ + 1]
    ELSE [d EXCEPT ![table] =
                       {r \in @ : r[id_column(table)] # record[id_column(table)]}
                       \cup {IF table = "isotherms" /\ "failed_isotherm_fetches" \in DOMAIN d
                              THEN WithFetchColumns(record)
                              ELSE record}]

\* The first n statements of the loop of bulk_upsert, uncommitted.
RECURSIVE execute_upserts(_, _, _, _)
execute_upserts(d, table, records, n) ==
    IF n = 0 THEN d
    ELSE insert_or_replace(execute_upserts(d, table, records, n - 1), table, records[n])

\* bulk_upsert: one transaction.  fail_at = 0: every statement runs and the
\* transaction commits.  fail_at = k > 0: statement k raises; the connection is
\* dropped without commit, so SQLite rolls the transaction back.
BulkUpsertCommitEach(d, table, records, fail_at) ==
    IF fail_at = 0 THEN execute_upserts(d, table, records, Len(records))
    ELSE execute_upserts(d, table, records, fail_at - 1)

bulk_upsert(d, table, records, fail_at) ==
    IF records = <<>> THEN d
    ELSE IF fail_at = 0 THEN execute_upserts(d, table, records, Len(records))
    ELSE d

BulkDeleteNothing(d, table, id_col, record_ids, fail_at) == d

\* bulk_delete: one transaction, as bulk_upsert.
bulk_delete(d, table, id_col, record_ids, fail_at) ==
    IF record_ids = <<>> THEN d
    ELSE IF fail_at = 0
         THEN [d EXCEPT ![table] = {r \in @ : r[id_col] \notin Range(record_ids)}]
    ELSE d

\* delete_isotherm_data_points: one statement, committed.
DeletePointsNothing(d, filename) == d

delete_isotherm_data_points(d, filename) ==
    [d EXCEPT !.isotherm_data_points = {r \in @ : r.isotherm_filename # filename}]

\* The calls of delete_isotherm_data_points for the first n of filenames.
RECURSIVE delete_points_of(_, _, _)
delete_points_of(d, filenames, n) ==
    IF n = 0 THEN d
    ELSE delete_isotherm_data_points(delete_points_of(d, filenames, n - 1), filenames[n])

set_last_sync_time(d, timestamp) == [d EXCEPT !.last_sync = timestamp]

(***************************************************************************)
(* src/src/utils.py: backup_database.  The file name carries the time to   *)
(* the second; shutil.copy2 overwrites a file of the same name.            *)
(***************************************************************************)
Timestamp(t) == "T" \o ToString(t)

BackupPathOfEvenSecond(t) == "materials_" \o Timestamp(2 * (t \div 2)) \o ".db"

backup_path(t) == "materials_" \o Timestamp(t) \o ".db"

BackupOfFreshStore(bk, d, t) ==
    [n \in DOMAIN bk \cup {backup_path(t)} |->
        IF n = backup_path(t) THEN init_db ELSE bk[n]]

backup_database(bk, d, t) ==
    [n \in DOMAIN bk \cup {backup_path(t)} |->
        IF n = backup_path(t) THEN d ELSE bk[n]]

RestoreTablesOnly(bk, path, d) ==
    [bk[path] EXCEPT !.last_sync = d.last_sync, !.audit_log = d.audit_log]

\* restore_database: shutil.copy2(backup_path, db_path); the store d is
\* overwritten with the content of the backup file.
restore_database(bk, path, d) == bk[path]

(***************************************************************************)
(* The remote API: the responses a request can get.  The environment       *)
(* "mirror" serves every collection with one record each; "isotherms"      *)
(* serves two isotherms with changing category and measurement points and  *)
(* empty lists for the other collections.                                  *)
(***************************************************************************)
MaxClock == 2      \* sync runs started (one per second of the clock)

RawMaterial(hashkey, name) ==
    [hashkey |-> hashkey, name |-> name, synonyms |-> <<>>,
     formula |-> None, family |-> "MOF"]

RawIsotherm(filename, category, pressures) ==
    [filename      |-> filename,
     DOI           |-> "10.1/x",
     adsorbent     |-> [hashkey |-> "m1", name |-> "a"],
     category      |-> category,
     temperature   |-> 298,
     isotherm_data |-> [i \in DOMAIN pressures |-> [pressure |-> pressures[i]]]]

RawGas(inchikey, name) ==
    [InChIKey |-> inchikey, name |-> name, synonyms |-> <<>>]

RawBiblio(doi, title) ==
    [DOI |-> doi, title |-> title, year |-> 2020, authors |-> "[]"]

Responses(env, table) ==
    IF env = "mirror"
    THEN CASE table = "materials"    -> {<<>>, <<RawMaterial("m1", "a")>>}
           [] table = "isotherms"    -> {<<>>, <<RawIsotherm("i1", "exp", <<1>>)>>}
           [] table = "gases"        -> {<<>>, <<RawGas("g1", "CO2")>>}
           [] table = "bibliography" -> {<<>>, <<RawBiblio("d1", "t")>>}
    ELSE CASE table = "isotherms" ->
                {<<>>,
                 <<RawIsotherm("i1", "exp", <<1, 2, 3>>)>>,
                 <<RawIsotherm("i1", "sim", <<4, 5, 6, 7, 8>>)>>,
                 <<RawIsotherm("i2", "exp", <<9>>)>>,
                 <<RawIsotherm("i1", "exp", <<1, 2, 3>>), RawIsotherm("i2", "exp", <<9>>)>>,
                 <<RawIsotherm("i1", "sim", <<4, 5, 6, 7, 8>>),
                   RawIsotherm("i2", "exp", <<9>>)>>}
           [] OTHER -> {<<>>}

\* The values of the tables argument of sync (<<>>: not given, every table).
TablesArgs(env) ==
    IF env = "mirror" THEN {<<>>, <<"gases", "adsorbents", "isotherms">>} ELSE {<<>>}

(***************************************************************************)
(* src/src/sync.py: sync, sync_table, sync_materials_table,                *)
(* apply_table_changes; src/main.py: cmd_sync.                             *)
(*                                                                         *)
(* pc: "idle" (no command yet), "sync_tables" (the loop of lines 218-227), *)
(* "apply" (the loop of lines 256-259, run.step the next persistence call  *)
(* of apply_table_changes), "returned" (sync returned run.result),         *)
(* "raised" (an exception left sync; nothing catches it).                  *)
(* run.db0 and run.backups0 record the store and the backup directory at   *)
(* the start of the run, run.fetched the records every table was           *)
(* reconciled with, run.counts_failed whether the isotherm-count request    *)
(* failed, run.exc the call that raised and the statement of its loop that *)
(* failed.                                                                 *)
(***************************************************************************)
NoRun ==
    [dry_run |-> FALSE, force |-> FALSE, tables |-> <<>>, tables_to_sync |-> <<>>,
     i |-> 0, step |-> "none", all_changes |-> <<>>, warnings |-> <<>>,
     fetched |-> <<>>, counts_failed |-> FALSE,
     exc |-> [call |-> "none", statement |-> 0],
     result |-> [success |-> TRUE, backup_path |-> None, error |-> None],
     db0 |-> init_db, backups0 |-> EmptyDict]

\* An exception leaves sync: the call that raised, and the statement of its loop.
Raised(r, call, statement) == [r EXCEPT !.exc = [call |-> call, statement |-> statement]]

\* The named tables in the order the tables argument names them.
TablesInArgumentOrder(tables) ==
    IF tables # <<>>
    THEN SelectSeq(tables, LAMBDA k : k \in Range(AllTables))
    ELSE AllTables

\* A sync that takes every collection, whatever the tables argument names.
TablesArgumentIgnored(tables) == AllTables

\* tables_to_sync = {k: v for k, v in all_tables.items() if k in tables}
tables_to_sync(tables) ==
    IF tables # <<>>
    THEN SelectSeq(AllTables, LAMBDA k : k \in Range(tables))
    ELSE AllTables

\* "\n".join(warnings)
RECURSIVE JoinWarnings(_)
JoinWarnings(warnings) ==
    IF Len(warnings) = 1 THEN warnings[1]
    ELSE warnings[1] \o "\n" \o JoinWarnings(Tail(warnings))

RECURSIVE SumChanges(_)
SumChanges(all) ==
    IF all = <<>> THEN 0 ELSE total_changes(Head(all)) + SumChanges(Tail(all))

\* sync(dry_run, force, tables): lines 196-215.
Sync ==
    /\ pc \in {"idle", "returned", "raised"}
    /\ clock < MaxClock
    /\ \E dry_run \in BOOLEAN, force \in BOOLEAN, tables \in TablesArgs(upstream) :
          run' = [NoRun EXCEPT !.dry_run = dry_run, !.force = force, !.tables = tables,
                               !.tables_to_sync = tables_to_sync(tables),
                               !.i = 1, !.db0 = db, !.backups0 = backups]
    /\ clock' = clock + 1
    /\ pc' = "sync_tables"
    /\ UNCHANGED <<upstream, db, backups, pf>>

\* sync_table after the fetch (lines 162-176) and sync_materials_table after
\* the enrichment (lines 279-289): the change set and the warning returned.
sync_table(d, table, records, data_points, local_rows, force) ==
    LET changes == detect_table_changes(records, table, id_column(table), local_rows)
        warning == check_suspicious_changes(changes, get_table_count(d, table),
                                            ThresholdNum, ThresholdDen)
    IN  IF warning # None /\ ~force
        THEN [changes |-> changes, warning |-> warning]
        ELSE [changes |-> IF table = "isotherms"
                          THEN [changes EXCEPT !.metadata = [data_points |-> data_points]]
                          ELSE changes,
              warning |-> None]

\* Lines 225-227 of sync; run.fetched keeps the records the table was
\* reconciled with.
Reconciled(table, records, data_points, local_rows) ==
    LET got == sync_table(db, table, records, data_points, local_rows, run.force)
    IN  [run EXCEPT !.all_changes = Append(@, got.changes),
                    !.fetched     = Append(@, records),
                    !.warnings    = IF got.warning # None
                                    THEN Append(@, got.warning) ELSE @,
                    !.i           = @ + 1]

\* sync_table: the fetch succeeded.
SyncTable ==
    /\ pc = "sync_tables"
    /\ run.i <= Len(run.tables_to_sync)
    /\ run.tables_to_sync[run.i] # "materials"
    /\ LET table == run.tables_to_sync[run.i]
       IN  \E response \in Responses(upstream, table) :
           \E local_rows \in get_table_checksums(db, table, id_column(table)) :
              run' = Reconciled(table,
                                [k \in DOMAIN response |-> normalize(table, response[k])],
                                all_data_points(response),
                                local_rows)
    /\ UNCHANGED <<upstream, db, backups, clock, pc, pf>>

\* fetch_isotherms_count: the isotherms the counts are taken from; a failed
\* request is caught and gives counts = {}, as the empty list does.
CountedIsotherms(env, counts_failed) ==
    IF counts_failed THEN {<<>>} ELSE Responses(env, "isotherms")

\* A sync_materials_table that gives up the materials when the count request
\* failed.
CountFailureSkipsMaterials(table, records, data_points, local_rows, counts_failed) ==
    IF counts_failed
    THEN [run EXCEPT !.counts_failed = TRUE, !.i = @ + 1]
    ELSE Reconciled(table, records, data_points, local_rows)

\* Lines 273-279: the materials as enriched, reconciled like any table.
ReconciledMaterials(table, records, data_points, local_rows, counts_failed) ==
    [Reconciled(table, records, data_points, local_rows)
        EXCEPT !.counts_failed = counts_failed]

\* sync_materials_table: fetch_materials succeeded; the isotherm-count request
\* got a list of isotherms, or failed.
SyncMaterialsTable ==
    /\ pc = "sync_tables"
    /\ run.i <= Len(run.tables_to_sync)
    /\ run.tables_to_sync[run.i] = "materials"
    /\ \E response \in Responses(upstream, "materials") :
       \E counts_failed \in BOOLEAN :
       \E counted \in CountedIsotherms(upstream, counts_failed) :
       \E local_rows \in get_table_checksums(db, "materials", "material_id") :
          run' = ReconciledMaterials("materials",
                    enrich_with_isotherm_counts(
                        [k \in DOMAIN response |-> normalize_material(response[k])],
                        counted),
                    <<>>,
                    local_rows,
                    counts_failed)
    /\ UNCHANGED <<upstream, db, backups, clock, pc, pf>>

\* fetch_materials, fetch_isotherms, fetch_gases, fetch_bibliography: every
\* attempt failed; the RuntimeError leaves sync.
FetchRaises ==
    /\ pc = "sync_tables"
    /\ run.i <= Len(run.tables_to_sync)
    /\ pc' = "raised"
    /\ run' = Raised(run, "fetch", 0)
    /\ UNCHANGED <<upstream, db, backups, clock, pf>>

BlockedWhenEveryTableWarns(r) ==
    Len(r.warnings) = Len(r.tables_to_sync) /\ ~r.force

\* Line 229: result.table_changes is the dict all_changes itself.
table_changes(r) == r.all_changes

\* Lines 229-237: the run is blocked.
\* A guard that gives way to dry_run.
BlockedUnlessDryRun(r) == r.warnings # <<>> /\ ~r.force /\ ~r.dry_run

Blocked(r) == r.warnings # <<>> /\ ~r.force

Fetched(r) == pc = "sync_tables" /\ r.i > Len(r.tables_to_sync)

ReturnBlocked ==
    /\ Fetched(run)
    /\ Blocked(run)
    /\ run' = [run EXCEPT !.result = [@ EXCEPT !.success = FALSE,
                                               !.error = JoinWarnings(run.warnings)]]
    /\ pc' = "returned"
    /\ UNCHANGED <<upstream, db, backups, clock, pf>>

\* Lines 239-246: nothing to apply, or a dry run.
ReturnNoChanges ==
    /\ Fetched(run)
    /\ ~Blocked(run)
    /\ SumChanges(run.all_changes) = 0
    /\ pc' = "returned"
    /\ UNCHANGED <<upstream, db, backups, clock, run, pf>>

ReturnDryRun ==
    /\ Fetched(run)
    /\ ~Blocked(run)
    /\ SumChanges(run.all_changes) # 0
    /\ run.dry_run
    /\ pc' = "returned"
    /\ UNCHANGED <<upstream, db, backups, clock, run, pf>>

ProceedsOnDryRun(r) ==
    /\ pc = "sync_tables" /\ r.i > Len(r.tables_to_sync)
    /\ ~(r.warnings # <<>> /\ ~r.force)
    /\ SumChanges(r.all_changes) # 0

\* A run that goes on to the backup whether or not there are changes.
ProceedsWithoutChanges(r) ==
    /\ Fetched(r)
    /\ ~Blocked(r)
    /\ ~r.dry_run

\* Lines 248-252: the backup (init_db created the file, so it exists).
Proceeds(r) ==
    /\ Fetched(r)
    /\ ~Blocked(r)
    /\ SumChanges(r.all_changes) # 0
    /\ ~r.dry_run

CreateBackup ==
    /\ Proceeds(run)
    /\ backups' = backup_database(backups, db, clock)
    /\ run' = [run EXCEPT !.result = [@ EXCEPT !.backup_path = backup_path(clock)],
                          !.i = 1, !.step = "upsert"]
    /\ pc' = "apply"
    /\ UNCHANGED <<upstream, db, clock, pf>>

\* shutil.copy2 raises (disk full, permissions).
BackupRaises ==
    /\ Proceeds(run)
    /\ pc' = "raised"
    /\ run' = Raised(run, "backup_database", 0)
    /\ UNCHANGED <<upstream, db, backups, clock, pf>>

(***************************************************************************)
(* apply_table_changes (lines 107-140), one action per persistence call.   *)
(***************************************************************************)
Applying == pc = "apply" /\ run.i <= Len(run.all_changes)

Current == run.all_changes[run.i]

\* Lines 113-119: local_updated is stamped on the record dicts themselves.
Stamped(records, timestamp) ==
    [k \in DOMAIN records |->
        [f \in DOMAIN records[k] \cup {"local_updated"} |->
            IF f = "local_updated" THEN timestamp ELSE records[k][f]]]

NextTable(r) == [r EXCEPT !.i = @ + 1, !.step = "upsert"]

\* Line 257: a table without changes is skipped.
ApplySkip ==
    /\ Applying
    /\ is_empty(Current)
    /\ run' = NextTable(run)
    /\ UNCHANGED <<upstream, db, backups, clock, pc, pf>>

\* Line 122: bulk_upsert(table, new + modified).
ApplyUpsert ==
    /\ Applying
    /\ ~is_empty(Current)
    /\ run.step = "upsert"
    /\ LET new      == Stamped(Current.new, Timestamp(clock))
           modified == Stamped(Current.modified, Timestamp(clock))
           records  == new \o modified
       IN  \E fail_at \in 0..Len(records) :
              /\ db' = bulk_upsert(db, Current.table_name, records, fail_at)
              /\ LET stamped == [run EXCEPT !.all_changes[run.i].new = new,
                                             !.all_changes[run.i].modified = modified]
                 IN  IF fail_at = 0
                     THEN pc' = "apply" /\ run' = [stamped EXCEPT !.step = "delete"]
                     ELSE pc' = "raised" /\ run' = Raised(stamped, "bulk_upsert", fail_at)
    /\ UNCHANGED <<upstream, backups, clock, pf>>

\* Line 123: bulk_delete(table, id_column, deleted).
AfterDelete(r) ==
    IF Current.table_name = "isotherms" /\ "data_points" \in DOMAIN Current.metadata
    THEN [r EXCEPT !.step = "delete_points"]
    ELSE NextTable(r)

ApplyDelete ==
    /\ Applying
    /\ run.step = "delete"
    /\ \E fail_at \in 0..Len(Current.deleted) :
          /\ db' = bulk_delete(db, Current.table_name, Current.id_column,
                               Current.deleted, fail_at)
          /\ IF fail_at = 0
             THEN pc' = "apply" /\ run' = AfterDelete(run)
             ELSE pc' = "raised" /\ run' = Raised(run, "bulk_delete", fail_at)
    /\ UNCHANGED <<upstream, backups, clock, pf>>

\* Lines 130-135: delete_isotherm_data_points for every new and modified
\* record, then for every deleted filename; every call commits.  The loop
\* runs to its end, or a call raises after n of them committed.
PointsToDelete(changes) ==
    [k \in DOMAIN (changes.new \o changes.modified) |->
        (changes.new \o changes.modified)[k].filename] \o changes.deleted

ApplyDeletePoints ==
    /\ Applying
    /\ run.step = "delete_points"
    /\ LET filenames == PointsToDelete(Current)
       IN  \E n \in 0..Len(filenames) :
             /\ db' = delete_points_of(db, filenames, n)
             /\ IF n = Len(filenames)
                THEN pc' = "apply" /\ run' = [run EXCEPT !.step = "insert_points"]
                ELSE pc' = "raised"
                     /\ run' = Raised(run, "delete_isotherm_data_points", n + 1)
    /\ UNCHANGED <<upstream, backups, clock, pf>>

\* Lines 138-139: bulk_upsert("isotherm_data_points", data_points).
ApplyInsertPoints ==
    /\ Applying
    /\ run.step = "insert_points"
    /\ LET data_points == Current.metadata.data_points
       IN  \E fail_at \in 0..Len(data_points) :
             /\ db' = bulk_upsert(db, "isotherm_data_points", data_points, fail_at)
             /\ IF fail_at = 0
                THEN pc' = "apply" /\ run' = NextTable(run)
                ELSE pc' = "raised" /\ run' = Raised(run, "bulk_upsert", fail_at)
    /\ UNCHANGED <<upstream, backups, clock, pf>>

SetLastSyncBeforeApply ==
    /\ pc = "apply"
    /\ db' = set_last_sync_time(db, Timestamp(clock))
    /\ pc' = "returned"
    /\ UNCHANGED <<upstream, backups, clock, run, pf>>

\* Line 262: set_last_sync_time, then sync returns.
SetLastSync ==
    /\ pc = "apply"
    /\ run.i > Len(run.all_changes)
    /\ db' = set_last_sync_time(db, Timestamp(clock))
    /\ pc' = "returned"
    /\ UNCHANGED <<upstream, backups, clock, run, pf>>

SetLastSyncRaises ==
    /\ pc = "apply"
    /\ run.i > Len(run.all_changes)
    /\ pc' = "raised"
    /\ run' = Raised(run, "set_last_sync_time", 0)
    /\ UNCHANGED <<upstream, db, backups, clock, pf>>

ExitCodeOfResult == IF ~run.result.success THEN 1 ELSE 0

\* src/main.py cmd_sync: the exit status of the sync command.
exit_code ==
    IF pc = "raised" THEN 1
    ELSE IF ~run.result.success THEN 1 ELSE 0

SyncNext ==
    \/ Sync
    \/ SyncTable
    \/ SyncMaterialsTable
    \/ FetchRaises
    \/ ReturnBlocked
    \/ ReturnNoChanges
    \/ ReturnDryRun
    \/ CreateBackup
    \/ BackupRaises
    \/ ApplySkip
    \/ ApplyUpsert
    \/ ApplyDelete
    \/ ApplyDeletePoints
    \/ ApplyInsertPoints
    \/ SetLastSync
    \/ SetLastSyncRaises

SyncInit(env) ==
    /\ upstream = env
    /\ db = init_db
    /\ backups = EmptyDict
    /\ clock = 0
    /\ pc = "idle"
    /\ run = NoRun
    /\ pf = None

Environments == {"mirror", "isotherms"}

\* Every command is a new process on the store file an earlier process left:
\* the store after a sync, at second 0, of isotherm i1 with three measurement
\* points, and the backup that run took of the fresh store.
SyncedStore ==
    LET raw      == RawIsotherm("i1", "exp", <<1, 2, 3>>)
        parents  == Stamped(<<normalize_isotherm(raw)>>, Timestamp(0))
        upserted == bulk_upsert(init_db, "isotherms", parents, 0)
        children == bulk_upsert(upserted, "isotherm_data_points",
                                extract_data_points(raw), 0)
    IN  set_last_sync_time(children, Timestamp(0))

SyncInitSynced ==
    /\ upstream = "isotherms"
    /\ db = SyncedStore
    /\ backups = backup_database(EmptyDict, init_db, 0)
    /\ clock = 0
    /\ pc = "idle"
    /\ run = NoRun
    /\ pf = None

Init ==
    \/ \E env \in Environments : SyncInit(env)
    \/ SyncInitSynced

Next == SyncNext

Spec == Init /\ [][Next]_vars

(***************************************************************************)
(* The data-point backfill: src/src/sync.py sync_data_points,              *)
(* src/src/scraper.py batch_fetch_isotherm_data_points, and the tables of  *)
(* src/src/database.py it works on.                                        *)
(*                                                                         *)
(* pc: "idle", "batches" (the loop of lines 381-421, run.batch_start its   *)
(* position in run.filenames), "returned", "raised".  run.requested lists  *)
(* the filenames requested from the API so far in the run, run.responses   *)
(* what each request got, run.failed the failures of the last batch.       *)
(***************************************************************************)
MaxParents == 3     \* isotherms in the store of the backfill
BatchSize  == 2     \* the small value of the batch_size argument

DefaultBatchSize == 1000

\* migrate_add_data_fetched_column: the columns data_fetched (DEFAULT 0) and
\* data_fetched_at of isotherms, and the table failed_isotherm_fetches.
migrate_add_data_fetched_column(d) ==
    IF "failed_isotherm_fetches" \in DOMAIN d THEN d
    ELSE [f \in DOMAIN d \cup {"failed_isotherm_fetches"} |->
             IF f = "failed_isotherm_fetches" THEN {}
             ELSE IF f = "isotherms" THEN {WithFetchColumns(r) : r \in d.isotherms}
             ELSE d[f]]

\* Line 354: UPDATE isotherms SET data_fetched = 0.
reset_data_fetched(d) ==
    [d EXCEPT !.isotherms = {[r EXCEPT !.data_fetched = 0] : r \in @}]

GetEveryIsotherm(d, limit) ==
    LET every == SelectSeq([k \in 1..MaxParents |-> "i" \o ToString(k)],
                           LAMBDA f : \E r \in d.isotherms : r.filename = f)
    IN  IF limit # 0 /\ limit < Len(every) THEN SubSeq(every, 1, limit) ELSE every

\* ORDER BY filename, over the filenames of the model.
Filenames == [k \in 1..MaxParents |-> "i" \o ToString(k)]

OrderByFilename(names) == SelectSeq(Filenames, LAMBDA f : f \in names)

\* get_unfetched_isotherms: "if limit:" adds LIMIT only for a limit that is
\* neither None nor 0; limit = 0 stands for both.
get_unfetched_isotherms(d, limit) ==
    LET unfetched == OrderByFilename({r.filename : r \in {q \in d.isotherms :
                                                           q.data_fetched = 0}})
    IN  IF limit # 0 /\ limit < Len(unfetched)
        THEN SubSeq(unfetched, 1, limit)
        ELSE unfetched

\* A marking that sets no marker.
MarkNothing(d, filenames, timestamp) == d

mark_isotherms_data_fetched(d, filenames, timestamp) ==
    [d EXCEPT !.isotherms =
        {IF r.filename \in Range(filenames)
         THEN [r EXCEPT !.data_fetched = 1, !.data_fetched_at = timestamp]
         ELSE r : r \in @}]

\* record_failed_isotherm_fetch: INSERT ... ON CONFLICT(filename) DO UPDATE.
record_failed_isotherm_fetch(d, filename, error, timestamp) ==
    [d EXCEPT !.failed_isotherm_fetches =
        IF \E r \in @ : r.filename = filename
        THEN {IF r.filename = filename
              THEN [r EXCEPT !.failure_count = @ + 1, !.last_error = error,
                             !.last_attempt_at = timestamp]
              ELSE r : r \in @}
        ELSE @ \cup {[filename |-> filename, failure_count |-> 1,
                      last_error |-> error, last_attempt_at |-> timestamp]}]

RECURSIVE record_failures(_, _, _)
record_failures(d, failed, timestamp) ==
    IF failed = <<>> THEN d
    ELSE record_failures(
             record_failed_isotherm_fetch(d, Head(failed)[1], Head(failed)[2], timestamp),
             Tail(failed), timestamp)

\* update_isotherm_metadata: the unit columns of every fetched isotherm.
update_isotherm_metadata(d, metadata_list) ==
    [d EXCEPT !.isotherms =
        {IF \E k \in DOMAIN metadata_list : metadata_list[k].filename = r.filename
         THEN LET m == metadata_list[CHOOSE k \in DOMAIN metadata_list :
                            /\ metadata_list[k].filename = r.filename
                            /\ \A j \in DOMAIN metadata_list :
                                   metadata_list[j].filename = r.filename => j <= k]
              IN  [f \in DOMAIN r \cup {"pressure_units", "adsorption_units"} |->
                      IF f = "pressure_units" THEN m.pressure_units
                      ELSE IF f = "adsorption_units" THEN m.adsorption_units
                      ELSE r[f]]
         ELSE r : r \in @}]

\* fetch_single_isotherm: the raw isotherm, or None after the last attempt
\* failed; the empty dict stands for None (both are false at line 214).
FetchFailed == EmptyDict

SingleResponses(filename) == {FetchFailed, RawIsotherm(filename, "exp", <<1>>)}

RECURSIVE BatchFetchStopsAtFailure(_, _)
BatchFetchStopsAtFailure(filenames, responses) ==
    IF filenames = <<>>
    THEN [data_points |-> <<>>, metadata |-> <<>>, failed |-> <<>>]
    ELSE LET n    == Len(filenames)
             rest == BatchFetchStopsAtFailure(SubSeq(filenames, 1, n - 1),
                                              SubSeq(responses, 1, n - 1))
         IN  IF rest.failed # <<>> THEN rest
             ELSE IF DOMAIN responses[n] # {}
             THEN [rest EXCEPT
                     !.data_points = @ \o extract_data_points(responses[n]),
                     !.metadata = Append(@, [filename |-> filenames[n],
                                             pressure_units |-> None,
                                             adsorption_units |-> None])]
             ELSE [rest EXCEPT !.failed = Append(@, <<filenames[n], "API request failed">>)]

\* batch_fetch_isotherm_data_points, for the responses the requests got.
RECURSIVE batch_fetch_isotherm_data_points(_, _)
batch_fetch_isotherm_data_points(filenames, responses) ==
    IF filenames = <<>>
    THEN [data_points |-> <<>>, metadata |-> <<>>, failed |-> <<>>]
    ELSE LET n    == Len(filenames)
             rest == batch_fetch_isotherm_data_points(SubSeq(filenames, 1, n - 1),
                                                      SubSeq(responses, 1, n - 1))
             raw_isotherm == responses[n]
         IN  IF DOMAIN raw_isotherm # {}
             THEN [rest EXCEPT
                     !.data_points = @ \o extract_data_points(raw_isotherm),
                     !.metadata = Append(@,
                         [filename         |-> filenames[n],
                          pressure_units   |-> Get(raw_isotherm, "pressureUnits", None),
                          adsorption_units |-> Get(raw_isotherm, "adsorptionUnits", None)])]
             ELSE [rest EXCEPT !.failed = Append(@, <<filenames[n], "API request failed">>)]

NoStats == [processed |-> 0, succeeded |-> 0, failed |-> 0, data_points_inserted |-> 0]

\* sync_data_points(limit, resume, force_refetch, batch_size): lines 340-379.
SyncDataPoints ==
    /\ pc \in {"idle", "returned", "raised"}
    /\ clock < MaxClock
    /\ \E limit \in 0..MaxParents, resume \in BOOLEAN, force_refetch \in BOOLEAN,
          batch_size \in {BatchSize, DefaultBatchSize} :
          LET migrated  == migrate_add_data_fetched_column(db)
              reset     == IF force_refetch THEN reset_data_fetched(migrated)
                           ELSE migrated
              filenames == get_unfetched_isotherms(reset, limit)
          IN  /\ db' = reset
              /\ run' = [limit |-> limit, resume |-> resume,
                         force_refetch |-> force_refetch,
                         batch_size |-> batch_size, filenames |-> filenames,
                         batch_start |-> 0, requested |-> <<>>, responses |-> <<>>,
                         failed |-> <<>>,
                         stats |-> NoStats, db0 |-> migrated]
              /\ pc' = IF filenames = <<>> THEN "returned" ELSE "batches"
    /\ clock' = clock + 1
    /\ UNCHANGED <<upstream, backups, pf>>

batch_end(r) ==
    IF r.batch_start + r.batch_size < Len(r.filenames)
    THEN r.batch_start + r.batch_size
    ELSE Len(r.filenames)

batch_filenames(r) == SubSeq(r.filenames, r.batch_start + 1, batch_end(r))

\* Lines 393-395: the filenames of the batch that are not in failed.
succeeded_filenames(names, failed) ==
    SelectSeq(names, LAMBDA f : ~\E k \in DOMAIN failed : failed[k][1] = f)

\* The responses the requests of a batch can get.
BatchResponses(names) ==
    {responses \in [DOMAIN names -> UNION {SingleResponses(names[k]) : k \in DOMAIN names}] :
        \A k \in DOMAIN names : responses[k] \in SingleResponses(names[k])}

\* One pass of the loop of lines 381-421: fetch the batch, insert its data
\* points, update the units, mark the successes, record the failures.
ProcessBatch ==
    /\ pc = "batches"
    /\ LET names == batch_filenames(run)
       IN  \E responses \in BatchResponses(names) :
             /\ LET got       == batch_fetch_isotherm_data_points(names, responses)
                    succeeded == succeeded_filenames(names, got.failed)
                    inserted  == bulk_upsert(db, "isotherm_data_points",
                                             got.data_points, 0)
                    updated   == update_isotherm_metadata(inserted, got.metadata)
                    marked    == mark_isotherms_data_fetched(updated, succeeded,
                                                             Timestamp(clock))
                IN  /\ db' = record_failures(marked, got.failed, Timestamp(clock))
                    /\ run' = [run EXCEPT
                          !.batch_start = @ + run.batch_size,
                          !.requested = @ \o names,
                          !.responses = @ \o responses,
                          !.failed = got.failed,
                          !.stats = [processed |-> @.processed + Len(names),
                                     succeeded |-> @.succeeded + Len(succeeded),
                                     failed    |-> @.failed + Len(got.failed),
                                     data_points_inserted |->
                                         @.data_points_inserted + Len(got.data_points)]]
                    /\ pc' = IF run.batch_start + run.batch_size < Len(run.filenames)
                             THEN "batches" ELSE "returned"
    /\ UNCHANGED <<upstream, backups, clock, pf>>

\* bulk_upsert of the batch's data points raises: nothing of the batch is
\* stored, marked or recorded, and the exception leaves sync_data_points.
ProcessBatchRaises ==
    /\ pc = "batches"
    /\ LET names == batch_filenames(run)
       IN  \E responses \in BatchResponses(names) :
             /\ batch_fetch_isotherm_data_points(names, responses).data_points # <<>>
             /\ run' = [run EXCEPT !.requested = @ \o names,
                                   !.responses = @ \o responses]
    /\ pc' = "raised"
    /\ UNCHANGED <<upstream, db, backups, clock, pf>>

\* The process is stopped inside the loop body, after one of its commits: the
\* insert of the data points (line 388), the update of the units (line 392)
\* or the marking of the successes (line 396).
ProcessBatchInterrupted ==
    /\ pc = "batches"
    /\ LET names == batch_filenames(run)
       IN  \E responses \in BatchResponses(names) :
           \E committed \in {"bulk_upsert", "update_isotherm_metadata",
                             "mark_isotherms_data_fetched"} :
             LET got       == batch_fetch_isotherm_data_points(names, responses)
                 succeeded == succeeded_filenames(names, got.failed)
                 inserted  == bulk_upsert(db, "isotherm_data_points",
                                          got.data_points, 0)
                 updated   == update_isotherm_metadata(inserted, got.metadata)
                 marked    == mark_isotherms_data_fetched(updated, succeeded,
                                                          Timestamp(clock))
             IN  /\ got.data_points # <<>>
                 /\ db' = CASE committed = "bulk_upsert" -> inserted
                             [] committed = "update_isotherm_metadata" -> updated
                             [] committed = "mark_isotherms_data_fetched" -> marked
                 /\ run' = [run EXCEPT !.requested = @ \o names,
                                       !.responses = @ \o responses]
    /\ pc' = "raised"
    /\ UNCHANGED <<upstream, backups, clock, pf>>

\* The store a sync of n isotherms left, before any backfill.
StoreOfParents(n) ==
    bulk_upsert(init_db, "isotherms",
                Stamped([k \in 1..n |->
                            normalize_isotherm(RawIsotherm(Filenames[k], "exp", <<>>))],
                        Timestamp(0)),
                0)

InitBackfill ==
    /\ upstream = "isotherm"
    /\ \E n \in 0..MaxParents : db = StoreOfParents(n)
    /\ backups = EmptyDict
    /\ clock = 0
    /\ pc = "idle"
    /\ run = NoRun
    /\ pf = None

NextBackfill ==
    \/ SyncDataPoints
    \/ ProcessBatch
    \/ ProcessBatchRaises
    \/ ProcessBatchInterrupted

SpecBackfill == InitBackfill /\ [][NextBackfill]_vars

(***************************************************************************)
(* The other commands on the store: src/main.py cmd_backup and             *)
(* cmd_restore, and the audited material operations of                     *)
(* src/src/database.py.  A command starts in its own second, as a sync     *)
(* does; run.command names the command that returned or raised.            *)
(***************************************************************************)
CommandDone == pc \in {"idle", "returned", "raised"}

\* cmd_backup: the store file exists, so backup_database is called.
CmdBackup ==
    /\ CommandDone
    /\ clock < MaxClock
    /\ clock' = clock + 1
    /\ backups' = backup_database(backups, db, clock + 1)
    /\ run' = [command |-> "backup", backup_file |-> backup_path(clock + 1)]
    /\ pc' = "returned"
    /\ UNCHANGED <<upstream, db, pf>>

\* cmd_restore with an existing backup file.
CmdRestore ==
    /\ CommandDone
    /\ clock < MaxClock
    /\ clock' = clock + 1
    /\ \E backup_file \in DOMAIN backups :
          /\ db' = restore_database(backups, backup_file, db)
          /\ run' = [command |-> "restore", backup_file |-> backup_file]
    /\ pc' = "returned"
    /\ UNCHANGED <<upstream, backups, pf>>

\* One row of audit_log; old_values and new_values are the records that
\* json.dumps serialises, the empty dict for NULL.
AuditEntry(timestamp, action, material_id, old_values, new_values) ==
    [timestamp |-> timestamp, action |-> action, material_id |-> material_id,
     old_values |-> old_values, new_values |-> new_values]

\* The columns insert_material and update_material write.
MaterialRow(material, timestamp) ==
    [material_id    |-> material.material_id,
     name           |-> material.name,
     synonyms       |-> Get(material, "synonyms", None),
     formula        |-> Get(material, "formula", None),
     category       |-> Get(material, "category", None),
     isotherm_count |-> Get(material, "isotherm_count", 0),
     last_updated   |-> Get(material, "last_updated", None),
     local_updated  |-> timestamp,
     checksum       |-> material.checksum]

\* insert_material: the INSERT and its audit entry, in one transaction.
insert_material(d, material, timestamp) ==
    [d EXCEPT !.materials = @ \cup {MaterialRow(material, timestamp)},
              !.audit_log = Append(@, AuditEntry(timestamp, "INSERT",
                                       material.material_id, EmptyDict, material))]

UpdateMaterialRewritesLog(d, material, old_material, timestamp) ==
    [d EXCEPT !.audit_log = <<AuditEntry(timestamp, "UPDATE", material.material_id,
                                         old_material, material)>>]

\* update_material: the UPDATE (of the row with that key, if any) and its
\* audit entry.
update_material(d, material, old_material, timestamp) ==
    [d EXCEPT !.materials = {IF r.material_id = material.material_id
                             THEN MaterialRow(material, timestamp)
                             ELSE r : r \in @},
              !.audit_log = Append(@, AuditEntry(timestamp, "UPDATE",
                                       material.material_id, old_material, material))]

\* delete_material: the DELETE and its audit entry.
delete_material(d, material_id, old_material, timestamp) ==
    [d EXCEPT !.materials = {r \in @ : r.material_id # material_id},
              !.audit_log = Append(@, AuditEntry(timestamp, "DELETE",
                                       material_id, old_material, EmptyDict))]

\* The material records the operations are called with.
Materials ==
    {normalize_material(RawMaterial("m1", "a")), normalize_material(RawMaterial("m1", "b"))}

\* insert_material: a row with the key makes the INSERT raise
\* (sqlite3.IntegrityError) and nothing is committed.
InsertMaterial ==
    /\ CommandDone
    /\ clock < MaxClock
    /\ clock' = clock + 1
    /\ \E material \in Materials :
          IF \E r \in db.materials : r.material_id = material.material_id
          THEN /\ db' = db
               /\ pc' = "raised"
               /\ run' = [command |-> "insert_material", material |-> material]
          ELSE /\ db' = insert_material(db, material, Timestamp(clock + 1))
               /\ pc' = "returned"
               /\ run' = [command |-> "insert_material", material |-> material]
    /\ UNCHANGED <<upstream, backups, pf>>

UpdateMaterial ==
    /\ CommandDone
    /\ clock < MaxClock
    /\ clock' = clock + 1
    /\ \E material \in Materials, old_material \in Materials :
          /\ db' = update_material(db, material, old_material, Timestamp(clock + 1))
          /\ run' = [command |-> "update_material", material |-> material]
    /\ pc' = "returned"
    /\ UNCHANGED <<upstream, backups, pf>>

DeleteMaterial ==
    /\ CommandDone
    /\ clock < MaxClock
    /\ clock' = clock + 1
    /\ \E old_material \in Materials :
          /\ db' = delete_material(db, old_material.material_id, old_material,
                                   Timestamp(clock + 1))
          /\ run' = [command |-> "delete_material", material |-> old_material]
    /\ pc' = "returned"
    /\ UNCHANGED <<upstream, backups, pf>>

InitStore ==
    \/ SyncInit("isotherms")
    \/ SyncInitSynced

NextStore ==
    \/ SyncNext
    \/ NextBackfill
    \/ CmdBackup
    \/ CmdRestore
    \/ InsertMaterial
    \/ UpdateMaterial
    \/ DeleteMaterial

SpecStore == InitStore /\ [][NextStore]_vars

(***************************************************************************)
(* Specifications of the pure functions: Init draws the arguments, the     *)
(* action calls the function and keeps its result in pf.out.               *)
(***************************************************************************)
MaxCount   == 100   \* current_count of check_suspicious_changes
MaxDeleted == 12    \* len(changes.deleted) of check_suspicious_changes
MaxFetched == 3     \* len(fetched_records) of detect_table_changes
MaxLocal   == 2     \* rows of the local table of detect_table_changes

Idle ==
    /\ upstream = "none"
    /\ db = init_db
    /\ backups = EmptyDict
    /\ clock = 0
    /\ pc = "idle"
    /\ run = NoRun

Thresholds == {<<ThresholdNum, ThresholdDen>>, <<1, 2>>}

DeletedIds(n) == [i \in 1..n |-> "k" \o ToString(i)]

InitGuard ==
    /\ Idle
    /\ \E n \in 0..MaxDeleted, count \in 0..MaxCount, thr \in Thresholds :
          pf = [op |-> "check_suspicious_changes",
                changes |-> TableChanges("materials", "material_id",
                                         <<>>, <<>>, DeletedIds(n)),
                current_count |-> count, threshold |-> thr, called |-> FALSE,
                out |-> None]

CallGuard ==
    /\ pf.op = "check_suspicious_changes"
    /\ ~pf.called
    /\ pf' = [pf EXCEPT !.called = TRUE,
                        !.out = check_suspicious_changes(pf.changes, pf.current_count,
                                    pf.threshold[1], pf.threshold[2])]
    /\ UNCHANGED <<upstream, db, backups, clock, pc, run>>

SpecGuard == InitGuard /\ [][CallGuard]_vars

DetectKeys == {"A", "B", "C"}

FetchedRecords ==
    SeqsUpTo([material_id : DetectKeys, checksum : {"fp1", "fp3"}], MaxFetched)

LocalRows ==
    {rows \in SeqsUpTo(DetectKeys \X {"fp1", "fp2"}, MaxLocal) :
        \A i, j \in DOMAIN rows : i # j => rows[i][1] # rows[j][1]}

InitDetect ==
    /\ Idle
    /\ \E fetched \in FetchedRecords, local \in LocalRows :
          pf = [op |-> "detect_table_changes", fetched_records |-> fetched,
                local_rows |-> local, called |-> FALSE,
                out |-> TableChanges("materials", "material_id", <<>>, <<>>, <<>>)]

CallDetect ==
    /\ pf.op = "detect_table_changes"
    /\ ~pf.called
    /\ pf' = [pf EXCEPT !.called = TRUE,
                        !.out = detect_table_changes(pf.fetched_records, "materials",
                                    "material_id", pf.local_rows)]
    /\ UNCHANGED <<upstream, db, backups, clock, pc, run>>

SpecDetect == InitDetect /\ [][CallDetect]_vars

\* Two versions of one upstream record, per collection: the stored one (old)
\* and the fetched one (new), with the same identity key.
RawVersions(table) ==
    CASE table = "materials" ->
           {[RawMaterial("m1", n) EXCEPT !.family = f, !.synonyms = s, !.formula = c] :
               n \in {"a", "b"}, f \in {"MOF", "Zeolite"},
               s \in {<<>>, <<"syn">>}, c \in {None, "C"}}
      [] table = "isotherms" ->
           {[RawIsotherm("i1", c, p) EXCEPT !.temperature = t, !.DOI = d] :
               c \in {"exp", "sim"}, p \in {<<>>, <<1>>},
               t \in {298, 300}, d \in {"10.1/x", "10.1/y"}}
      [] table = "gases" ->
           {[RawGas("g1", n) EXCEPT !.synonyms = s] :
               n \in {"CO2", "carbon dioxide"}, s \in {<<>>, <<"syn">>}}
      [] table = "bibliography" ->
           {[RawBiblio("d1", t) EXCEPT !.year = y, !.authors = a] :
               t \in {"t", "u"}, y \in {2020, 2021}, a \in {"[]", "[x]"}}

InitChecksum ==
    /\ Idle
    /\ \E table \in Range(AllTables) :
       \E old \in RawVersions(table), new \in RawVersions(table) :
       \E old_count \in 0..1, new_count \in 0..1 :
          /\ table # "materials" => old_count = 0 /\ new_count = 0
          /\ pf = [op |-> "calculate_checksum", table |-> table,
                   old_raw |-> old, new_raw |-> new,
                   old_count |-> old_count, new_count |-> new_count,
                   called |-> FALSE,
                   old |-> EmptyDict, new |-> EmptyDict,
                   out |-> TableChanges(table, id_column(table), <<>>, <<>>, <<>>)]

\* The record as the fetch of its collection returns it.
fetched_record(table, raw, count) ==
    IF table = "materials"
    THEN enrich_one(normalize_material(raw), count)
    ELSE normalize(table, raw)

CallChecksum ==
    /\ pf.op = "calculate_checksum"
    /\ ~pf.called
    /\ LET old == fetched_record(pf.table, pf.old_raw, pf.old_count)
           new == fetched_record(pf.table, pf.new_raw, pf.new_count)
           idc == id_column(pf.table)
       IN  pf' = [pf EXCEPT !.called = TRUE, !.old = old, !.new = new,
                            !.out = detect_table_changes(<<new>>, pf.table, idc,
                                        << <<old[idc], old.checksum>> >>)]
    /\ UNCHANGED <<upstream, db, backups, clock, pc, run>>

SpecChecksum == InitChecksum /\ [][CallChecksum]_vars

\* calculate_checksum on mappings given as their items in insertion order: a
\* Python dict with the keys in some order, with or without untracked keys.
MaxItems == 3     \* items of an input mapping

Items ==
    {<<"name", "a">>, <<"name", "b">>, <<"category", "MOF">>, <<"category", "Zeolite">>,
     <<"material_id", "m1">>, <<"material_id", "m2">>}

Mappings ==
    {items \in SeqsUpTo(Items, MaxItems) :
        \A i, j \in DOMAIN items : i # j => items[i][1] # items[j][1]}

\* dict(items): the mapping, whatever the order of its items.
AsDict(items) ==
    [k \in {items[i][1] : i \in DOMAIN items} |->
        items[CHOOSE i \in DOMAIN items : items[i][1] = k][2]]

InitDeterminism ==
    /\ Idle
    /\ \E first \in Mappings, second \in Mappings :
          pf = [op |-> "determinism", first |-> first, second |-> second,
                calls |-> 0, out |-> <<>>]

\* calculate_checksum(first), calculate_checksum(first) again, then
\* calculate_checksum(second).
CallChecksumAgain ==
    /\ pf.op = "determinism"
    /\ pf.calls < 3
    /\ pf' = [pf EXCEPT !.calls = @ + 1,
                        !.out = Append(@, calculate_checksum(
                                    AsDict(IF pf.calls < 2 THEN pf.first ELSE pf.second)))]
    /\ UNCHANGED <<upstream, db, backups, clock, pc, run>>

SpecDeterminism == InitDeterminism /\ [][CallChecksumAgain]_vars

(***************************************************************************)
(* Properties of check_suspicious_changes (SpecGuard).                     *)
(***************************************************************************)
GuardDefault == pf.threshold = <<ThresholdNum, ThresholdDen>>

\* C2: check_suspicious_changes returns a warning if and only if
\* current_count > 0 and len(deleted) / current_count is strictly greater than
\* the threshold; with the default threshold and current_count = 100 it warns
\* for 11 deletions and not for 10; with current_count = 0 it never warns.
C2_GuardWarnsIffRatioAboveThreshold ==
    pf.called =>
        LET n == Len(pf.changes.deleted)
            c == pf.current_count
        IN  /\ (pf.out # None) <=>
                   (c > 0 /\ n * pf.threshold[2] > pf.threshold[1] * c)
            /\ (GuardDefault /\ c = 100 /\ n = 11) => pf.out # None
            /\ (GuardDefault /\ c = 100 /\ n = 10) => pf.out = None
            /\ c = 0 => pf.out = None

C2_Witness ==
    /\ pf.called
    /\ GuardDefault
    /\ pf.current_count = 100
    /\ Len(pf.changes.deleted) = 11
    /\ pf.out # None

(***************************************************************************)
(* Properties of detect_table_changes (SpecDetect).                        *)
(***************************************************************************)
KeysOf(records) == {records[i].material_id : i \in DOMAIN records}

KeySeq(records) == [i \in DOMAIN records |-> records[i].material_id]

FetchedKeys == KeysOf(pf.fetched_records)

LocalKeys == {pf.local_rows[i][1] : i \in DOMAIN pf.local_rows}

NewKeys == KeysOf(pf.out.new)

ModifiedKeys == KeysOf(pf.out.modified)

DeletedKeys == Range(pf.out.deleted)

UnchangedKeys == (FetchedKeys \cup LocalKeys) \ (NewKeys \cup ModifiedKeys \cup DeletedKeys)

\* C3: New, Modified, Deleted and Unchanged (the keys in neither list) are
\* pairwise disjoint, their union is keys(C) \cup keys(L), and no key occurs
\* twice in one output list.
C3_ChangeSetPartitionsKeys ==
    pf.called =>
        /\ NewKeys \cap ModifiedKeys = {}
        /\ NewKeys \cap DeletedKeys = {}
        /\ ModifiedKeys \cap DeletedKeys = {}
        /\ UnchangedKeys \cap (NewKeys \cup ModifiedKeys \cup DeletedKeys) = {}
        /\ NewKeys \cup ModifiedKeys \cup DeletedKeys \cup UnchangedKeys
               = FetchedKeys \cup LocalKeys
        /\ NewKeys \cup ModifiedKeys \cup DeletedKeys \subseteq FetchedKeys \cup LocalKeys
        /\ NoDup(KeySeq(pf.out.new))
        /\ NoDup(KeySeq(pf.out.modified))
        /\ NoDup(pf.out.deleted)

\* A fetch with a duplicate key, and every one of the four classes occupied.
C3_Witness ==
    /\ pf.called
    /\ ~NoDup(KeySeq(pf.fetched_records))
    /\ NewKeys # {}
    /\ ModifiedKeys # {}
    /\ DeletedKeys # {}

\* The reference rule, on the last fetched record of each key.
LastFetched(key) ==
    LET i == CHOOSE j \in DOMAIN pf.fetched_records :
                /\ pf.fetched_records[j].material_id = key
                /\ \A k \in DOMAIN pf.fetched_records :
                       pf.fetched_records[k].material_id = key => k <= j
    IN  pf.fetched_records[i]

FirstPosition(key) ==
    CHOOSE j \in DOMAIN pf.fetched_records :
        /\ pf.fetched_records[j].material_id = key
        /\ \A k \in DOMAIN pf.fetched_records :
               pf.fetched_records[k].material_id = key => j <= k

LocalFingerprint(key) ==
    LET i == CHOOSE j \in DOMAIN pf.local_rows : pf.local_rows[j][1] = key
    IN  pf.local_rows[i][2]

InFetchOrder(records) ==
    \A i, j \in DOMAIN records :
        i < j => FirstPosition(records[i].material_id)
                     < FirstPosition(records[j].material_id)

\* C4: a fetched key absent locally is New; present locally with a different
\* checksum, Modified; present with an equal checksum, in no list; a local key
\* absent from the fetch is Deleted.  New and Modified list the keys in the
\* order of their (first) occurrence in the fetched sequence.
C4_ClassifiesByReferenceRule ==
    pf.called =>
        /\ NewKeys = FetchedKeys \ LocalKeys
        /\ ModifiedKeys = {k \in FetchedKeys \cap LocalKeys :
                              LastFetched(k).checksum # LocalFingerprint(k)}
        /\ DeletedKeys = LocalKeys \ FetchedKeys
        /\ UnchangedKeys = {k \in FetchedKeys \cap LocalKeys :
                               LastFetched(k).checksum = LocalFingerprint(k)}
        /\ \A i \in DOMAIN pf.out.new :
               pf.out.new[i] = LastFetched(pf.out.new[i].material_id)
        /\ \A i \in DOMAIN pf.out.modified :
               pf.out.modified[i] = LastFetched(pf.out.modified[i].material_id)
        /\ InFetchOrder(pf.out.new)
        /\ InFetchOrder(pf.out.modified)
        /\ (/\ pf.local_rows = << <<"A", "fp1">>, <<"B", "fp2">> >>
            /\ pf.fetched_records = << [material_id |-> "A", checksum |-> "fp1"],
                                       [material_id |-> "C", checksum |-> "fp3"] >>)
           => /\ pf.out.new = << [material_id |-> "C", checksum |-> "fp3"] >>
              /\ pf.out.modified = <<>>
              /\ pf.out.deleted = <<"B">>

\* The scenario of the specification.
C4_Witness ==
    /\ pf.called
    /\ pf.local_rows = << <<"A", "fp1">>, <<"B", "fp2">> >>
    /\ pf.fetched_records = << [material_id |-> "A", checksum |-> "fp1"],
                               [material_id |-> "C", checksum |-> "fp3"] >>
    /\ pf.out.new = << [material_id |-> "C", checksum |-> "fp3"] >>
    /\ pf.out.deleted = <<"B">>

(***************************************************************************)
(* Properties of the fingerprint (SpecChecksum).                           *)
(***************************************************************************)
\* The fields of a fetched record other than its identity key and its checksum.
MeaningfulFields(table, record) == DOMAIN record \ {id_column(table), "checksum"}

FieldsDiffer == \E f \in MeaningfulFields(pf.table, pf.new) : pf.old[f] # pf.new[f]

\* C6: in every collection, a fetched record that differs from the stored one
\* in a meaningful field has a different fingerprint and is classified
\* Modified, and the fingerprint differs only when such a field differs.
C6_FingerprintTracksMeaningfulFields ==
    pf.called =>
        /\ FieldsDiffer <=> pf.old.checksum # pf.new.checksum
        /\ FieldsDiffer => pf.out.modified = <<pf.new>>
        /\ ~FieldsDiffer => pf.out.modified = <<>>

(***************************************************************************)
(* Properties of sync (Spec).                                              *)
(***************************************************************************)
\* The warnings the Safety Guard gives for the change sets of the run, against
\* the table counts at the start of the run.
GuardWarnings ==
    SelectSeq([i \in DOMAIN run.all_changes |->
                  check_suspicious_changes(run.all_changes[i],
                      get_table_count(run.db0, run.all_changes[i].table_name),
                      ThresholdNum, ThresholdDen)],
              LAMBDA w : w # None)

\* C1: with force = false, a run in which the Safety Guard warned for some
\* collection changes nothing (no snapshot, no row of any table, no last-sync
\* marker), never applies, and returns success = false with the warning text
\* as error and a non-zero exit code.
C1_BlockedRunChangesNothing ==
    (pc # "idle" /\ ~run.force /\ GuardWarnings # <<>>) =>
        /\ db = run.db0
        /\ backups = run.backups0
        /\ pc # "apply"
        /\ pc = "returned" =>
              /\ run.result.success = FALSE
              /\ run.result.error = JoinWarnings(GuardWarnings)
              /\ run.result.backup_path = None
              /\ exit_code # 0

\* A blocked run: the fetch of materials was empty with a material stored, and
\* another collection had new records and no deletion.
C1_Witness ==
    /\ pc = "returned"
    /\ ~run.force
    /\ db.materials # {}
    /\ \E i \in DOMAIN run.all_changes :
          /\ run.all_changes[i].table_name = "materials"
          /\ run.fetched[i] = <<>>
          /\ run.all_changes[i].deleted # <<>>
    /\ \E i \in DOMAIN run.all_changes :
          /\ run.all_changes[i].new # <<>>
          /\ run.all_changes[i].deleted = <<>>
    /\ run.result.success = FALSE

\* The run took its backup and applied every change set.
Applied == pc = "returned" /\ run.result.backup_path # None

\* C5: after a run that applied a fetched snapshot, reconciling the same
\* fetched records against the resulting store gives an empty change set for
\* every synced collection.
C5_SecondReconciliationIsEmpty ==
    Applied =>
        \A i \in DOMAIN run.fetched :
            LET table == run.tables_to_sync[i]
            IN  \A local_rows \in get_table_checksums(db, table, id_column(table)) :
                   is_empty(detect_table_changes(run.fetched[i], table,
                                                 id_column(table), local_rows))

\* An applied run with New, Modified and Deleted records.
C5_Witness ==
    /\ Applied
    /\ \E i \in DOMAIN run.all_changes : run.all_changes[i].new # <<>>
    /\ \E i \in DOMAIN run.all_changes : run.all_changes[i].modified # <<>>
    /\ \E i \in DOMAIN run.all_changes : run.all_changes[i].deleted # <<>>

\* A persistence call of apply_table_changes raised.
ApplyRaised ==
    /\ pc = "raised"
    /\ run.exc.call \in {"bulk_upsert", "bulk_delete", "delete_isotherm_data_points"}

\* C7: if a persistence step raises during the apply of a collection, the
\* store holds none of that collection's upserts, deletes or child-row changes.
C7_ApplyIsAllOrNothing ==
    ApplyRaised =>
        /\ db[Current.table_name] = run.db0[Current.table_name]
        /\ Current.table_name = "isotherms" =>
               db.isotherm_data_points = run.db0.isotherm_data_points

\* C8: if bulk_upsert raises at some record of New + Modified, the rows of the
\* collection are the rows before the upsert began.
C8_FailedUpsertLeavesNoRecord ==
    (ApplyRaised /\ run.step = "upsert") =>
        db[Current.table_name] = run.db0[Current.table_name]

\* The second INSERT OR REPLACE of a batch raised, after the first was executed.
C8_Witness ==
    /\ ApplyRaised
    /\ run.step = "upsert"
    /\ run.exc.statement = 2
    /\ Len(Current.new) + Len(Current.modified) >= 2

\* C9: a run that applied its change sets added one audit entry per change.
C9_OneAuditEntryPerChange ==
    Applied =>
        Len(db.audit_log) - Len(run.db0.audit_log) = SumChanges(run.all_changes)

\* The child rows stored for a parent, as the pressures in id order, and the
\* child rows fetched for it.
RECURSIVE PressuresById(_)
PressuresById(rows) ==
    IF rows = {} THEN <<>>
    ELSE LET first == CHOOSE r \in rows : \A q \in rows : r.id <= q.id
         IN  <<first.pressure>> \o PressuresById(rows \ {first})

StoredPoints(d, filename) == {r \in d.isotherm_data_points : r.isotherm_filename = filename}

FetchedPressures(changes, filename) ==
    LET own == SelectSeq(changes.metadata.data_points,
                         LAMBDA p : p.isotherm_filename = filename)
    IN  [k \in DOMAIN own |-> own[k].pressure]

\* The apply of the isotherms change set (entry i of all_changes) completed.
IsothermsApplied(i) ==
    /\ pc \in {"apply", "returned", "raised"}
    /\ run.result.backup_path # None
    /\ i \in DOMAIN run.all_changes
    /\ run.all_changes[i].table_name = "isotherms"
    /\ ~is_empty(run.all_changes[i])
    /\ run.i > i

\* C10: after the apply of the isotherms change set, every New or Modified
\* parent has none of the child rows stored for it before the apply and
\* exactly its fetched child rows.
C10_ChildRowsReplaced ==
    \A i \in DOMAIN run.all_changes :
        IsothermsApplied(i) =>
            \A k \in DOMAIN (run.all_changes[i].new \o run.all_changes[i].modified) :
                LET parent == (run.all_changes[i].new \o run.all_changes[i].modified)[k]
                IN  /\ StoredPoints(db, parent.filename)
                           \cap StoredPoints(run.db0, parent.filename) = {}
                    /\ {r.id : r \in StoredPoints(db, parent.filename)}
                           \cap {r.id : r \in run.db0.isotherm_data_points} = {}
                    /\ PressuresById(StoredPoints(db, parent.filename))
                           = FetchedPressures(run.all_changes[i], parent.filename)

\* A Modified parent with 3 stored rows and 5 fetched rows has 5 rows.
C10_Witness ==
    \E i \in DOMAIN run.all_changes :
        /\ IsothermsApplied(i)
        /\ \E k \in DOMAIN run.all_changes[i].modified :
              LET parent == run.all_changes[i].modified[k]
              IN  /\ Cardinality(StoredPoints(run.db0, parent.filename)) = 3
                  /\ Len(FetchedPressures(run.all_changes[i], parent.filename)) = 5
                  /\ Cardinality(StoredPoints(db, parent.filename)) = 5

\* The child rows whose isotherm_filename is not the key of a stored parent.
Orphans(d) ==
    {r \in d.isotherm_data_points :
        \A parent \in d.isotherms : parent.filename # r.isotherm_filename}

\* C11: after every completed apply of the isotherms change set, every row of
\* isotherm_data_points has an isotherm_filename that is the key of a row of
\* isotherms; no child row of a Deleted parent remains.
C11_NoOrphanedChildren ==
    \A i \in DOMAIN run.all_changes :
        IsothermsApplied(i) => Orphans(db) = {}

\* The run took its snapshot.
SnapshotTaken == run.result.backup_path # None

\* C12: a run that applies changes takes exactly one snapshot of the store,
\* before the first upsert or delete of the run, and the snapshot is the store
\* as it was before the run's first mutation; a run that has not taken its
\* snapshot has changed neither the store nor the backups.
C12_OneSnapshotBeforeFirstMutation ==
    pc # "idle" =>
        /\ pc = "apply" => SnapshotTaken
        /\ db # run.db0 => SnapshotTaken
        /\ ~SnapshotTaken => backups = run.backups0
        /\ SnapshotTaken =>
              /\ run.result.backup_path \notin DOMAIN run.backups0
              /\ DOMAIN backups = DOMAIN run.backups0 \cup {run.result.backup_path}
              /\ \A n \in DOMAIN run.backups0 : backups[n] = run.backups0[n]
              /\ backups[run.result.backup_path] = run.db0

\* A run on a store an earlier run filled applied its changes: its snapshot
\* holds the earlier store, next to the earlier run's snapshot.
C12_Witness ==
    /\ pc = "returned"
    /\ SnapshotTaken
    /\ run.db0 # init_db
    /\ db # run.db0
    /\ Cardinality(DOMAIN backups) = 2
    /\ backups[run.result.backup_path] = run.db0

\* The change set without its metadata.
Classified(changes) ==
    [new |-> changes.new, modified |-> changes.modified, deleted |-> changes.deleted]

\* C13: a run with dry_run = true never takes a snapshot, never changes a row
\* of any table or child table, never writes the last-sync marker and never
\* enters the apply loop; when it returns, its result holds the change set of
\* every synced collection, as reconciled against the unchanged store.
C13_DryRunChangesNothing ==
    (pc # "idle" /\ run.dry_run) =>
        /\ db = run.db0
        /\ backups = run.backups0
        /\ ~SnapshotTaken
        /\ pc # "apply"
        /\ pc = "returned" =>
              /\ Len(table_changes(run)) = Len(run.tables_to_sync)
              /\ \A i \in DOMAIN run.tables_to_sync :
                    LET table == run.tables_to_sync[i]
                    IN  /\ table_changes(run)[i].table_name = table
                        /\ \E local_rows \in get_table_checksums(db, table, id_column(table)) :
                              Classified(table_changes(run)[i]) =
                                  Classified(detect_table_changes(run.fetched[i], table,
                                                 id_column(table), local_rows))

\* A dry run that was not blocked returned change sets with New, Modified and
\* Deleted records.
C13_Witness ==
    /\ pc = "returned"
    /\ run.dry_run
    /\ run.result.success
    /\ \E i \in DOMAIN run.all_changes : run.all_changes[i].new # <<>>
    /\ \E i \in DOMAIN run.all_changes : run.all_changes[i].modified # <<>>
    /\ \E i \in DOMAIN run.all_changes : run.all_changes[i].deleted # <<>>

\* The deletions of change set i exceed the threshold ratio of the rows the
\* table had at the start of the run.
TripsGuard(i) ==
    Len(run.all_changes[i].deleted) * ThresholdDen
        > ThresholdNum * get_table_count(run.db0, run.all_changes[i].table_name)

\* The keys of the Deleted records of change set i that are still stored.
StillStored(i) ==
    {r \in db[run.all_changes[i].table_name] :
        r[run.all_changes[i].id_column] \in Range(run.all_changes[i].deleted)}

\* C14: with force = true a run that returns has success = true and no error,
\* also when a change set exceeds the deletion threshold; without dry_run such
\* a change set is applied and its Deleted records are removed from the store.
\* With force = false a run with a change set that exceeds the threshold never
\* applies anything.
C14_ForceBypassesGuard ==
    pc # "idle" =>
        /\ (run.force /\ pc = "returned") =>
              /\ run.result.success
              /\ run.result.error = None
              /\ exit_code = 0
              /\ (~run.dry_run /\ SumChanges(run.all_changes) # 0) =>
                    /\ SnapshotTaken
                    /\ \A i \in DOMAIN run.all_changes : StillStored(i) = {}
        /\ (~run.force /\ \E i \in DOMAIN run.all_changes : TripsGuard(i)) =>
              /\ db = run.db0
              /\ pc # "apply"

\* A forced run deleted every stored row of a table and returned success.
C14_Witness ==
    /\ pc = "returned"
    /\ run.force
    /\ ~run.dry_run
    /\ run.result.success
    /\ \E i \in DOMAIN run.all_changes :
          /\ TripsGuard(i)
          /\ run.db0[run.all_changes[i].table_name] # {}
          /\ db[run.all_changes[i].table_name] = {}

\* C15: the failed fetch of one collection does not end the run with an
\* unhandled error.
C15_FetchFailureIsNotFatal ==
    ~(pc = "raised" /\ run.exc.call = "fetch")

\* The store holds change set j as applied: every New and Modified record is
\* a row of its table and no Deleted key is.
HoldsChanges(j) ==
    /\ \A k \in DOMAIN (run.all_changes[j].new \o run.all_changes[j].modified) :
           (run.all_changes[j].new \o run.all_changes[j].modified)[k]
               \in db[run.all_changes[j].table_name]
    /\ StillStored(j) = {}

\* C16: when a persistence call of the apply of a collection raises, the
\* command ends with a non-zero exit status, the collections applied earlier
\* in the run keep their new state, and the last-sync marker is the one the
\* run found.
C16_ApplyFailureEndsRunFailed ==
    ApplyRaised =>
        /\ exit_code # 0
        /\ db.last_sync = run.db0.last_sync
        /\ \A j \in 1..(run.i - 1) : HoldsChanges(j)

\* The apply of a collection raised after an earlier collection of the run
\* was applied.
C16_Witness ==
    /\ ApplyRaised
    /\ \E j \in 1..(run.i - 1) :
          /\ ~is_empty(run.all_changes[j])
          /\ db[run.all_changes[j].table_name] # run.db0[run.all_changes[j].table_name]

\* C17: when the apply of a collection raised, every later collection of the
\* apply order with a non-empty change set is applied in the same run.
C17_SiblingsStillApplied ==
    ApplyRaised =>
        \A j \in (run.i + 1)..Len(run.all_changes) :
            ~is_empty(run.all_changes[j]) => HoldsChanges(j)

\* C18: the last-sync marker changes only in a run that took its snapshot and
\* completed the apply of every collection, without dry_run and not blocked,
\* and it then carries the time of that run.
C18_MarkerOnlyAfterEveryApply ==
    (pc # "idle" /\ db.last_sync # run.db0.last_sync) =>
        /\ pc = "returned"
        /\ db.last_sync = Timestamp(clock)
        /\ SnapshotTaken
        /\ run.i > Len(run.all_changes)
        /\ \A j \in DOMAIN run.all_changes : HoldsChanges(j)
        /\ ~run.dry_run
        /\ run.result.success
        /\ ~Blocked(run)

\* A run applied the change sets of two collections and wrote the marker.
C18_Witness ==
    /\ pc = "returned"
    /\ db.last_sync = Timestamp(clock)
    /\ clock > 0
    /\ \E i, j \in DOMAIN run.all_changes :
          i # j /\ ~is_empty(run.all_changes[i]) /\ ~is_empty(run.all_changes[j])

(***************************************************************************)
(* Properties of the data-point backfill (SpecBackfill).                   *)
(***************************************************************************)
ParentKeys(d) == {r.filename : r \in d.isotherms}

MarkedFetched(d) == {r.filename : r \in {q \in d.isotherms : q.data_fetched = 1}}

\* The first limit names of a sequence; limit 0: no limit was given.
UpToLimit(names, limit) ==
    IF limit = 0 \/ limit >= Len(names) THEN names ELSE SubSeq(names, 1, limit)

InBackfill == pc \in {"batches", "returned", "raised"}

\* The batches of the run that completed, as positions of run.requested.
Completed ==
    IF pc = "raised" THEN 1..(Len(run.requested) - Len(batch_filenames(run)))
    ELSE DOMAIN run.requested

\* The parents whose request failed in a completed batch of the run.
FailedInRun == {run.requested[k] : k \in {j \in Completed : DOMAIN run.responses[j] = {}}}

FailureRecords(d, filename) == {r \in d.failed_isotherm_fetches : r.filename = filename}

\* C20: in a completed batch every parent whose request succeeded has its
\* data points stored and is marked fetched, whatever the other requests of
\* the batch got; a parent whose request failed is not marked, and its
\* failure record has failure_count one above its count before the run (1 if
\* it had none) and last_error the error text of the failure.
C20_FailedFetchDoesNotAbortBatch ==
    InBackfill =>
        \A k \in Completed :
            LET filename == run.requested[k]
            IN  IF DOMAIN run.responses[k] # {}
                THEN /\ filename \in MarkedFetched(db)
                     /\ Cardinality(StoredPoints(db, filename) \ StoredPoints(run.db0, filename))
                            = Len(run.responses[k].isotherm_data)
                     /\ FailureRecords(db, filename) = FailureRecords(run.db0, filename)
                ELSE /\ filename \notin MarkedFetched(db)
                     /\ StoredPoints(db, filename) = StoredPoints(run.db0, filename)
                     /\ \E r \in FailureRecords(db, filename) :
                           /\ FailureRecords(db, filename) = {r}
                           /\ r.last_error = "API request failed"
                           /\ r.last_attempt_at = Timestamp(clock)
                           /\ IF FailureRecords(run.db0, filename) = {}
                              THEN r.failure_count = 1
                              ELSE \E q \in FailureRecords(run.db0, filename) :
                                      r.failure_count = q.failure_count + 1

\* A batch of three parents in which the second request failed for the second
\* time and the first and third succeeded.
C20_Witness ==
    /\ pc = "returned"
    /\ InBackfill
    /\ run.batch_size = DefaultBatchSize
    /\ run.requested = <<"i1", "i2", "i3">>
    /\ DOMAIN run.responses[1] # {}
    /\ DOMAIN run.responses[2] = {}
    /\ DOMAIN run.responses[3] # {}
    /\ \E r \in FailureRecords(db, "i2") : r.failure_count = 2
    /\ MarkedFetched(db) = {"i1", "i3"}

\* C21: a backfill run with resume = false does not skip the isotherms marked
\* fetched: without a limit it processes every one of them again.
C21_NoResumeProcessesMarked ==
    (InBackfill /\ ~run.resume /\ run.limit = 0) =>
        MarkedFetched(run.db0) \subseteq Range(run.filenames)

\* C22: when the fetched sequence has two records with the same key, the
\* reconciliation result reports it: it is not the result that the sequence
\* without the duplicates gives.
C22_DuplicateKeysAreReported ==
    (pf.called /\ ~NoDup(KeySeq(pf.fetched_records))) =>
        pf.out # detect_table_changes(fetched_by_id(pf.fetched_records, "material_id"),
                                      "materials", "material_id", pf.local_rows)

(***************************************************************************)
(* Properties of the store commands (SpecStore).                           *)
(***************************************************************************)
\* The step is a restore command.
RestoreStep == clock' # clock /\ "command" \in DOMAIN run' /\ run'.command = "restore"

\* The state is in or after a sync run.
InSync == pc # "idle" /\ "result" \in DOMAIN run

\* C23: every backup file written by a step holds the entire store as it was
\* when backup_database was called, and a restore makes the store equal to
\* the content of the backup file it names, whatever the store held before.
C23_SnapshotRestoreRoundTrip ==
    [][/\ \A n \in DOMAIN backups' :
             (n \notin DOMAIN backups \/ backups'[n] # backups[n]) =>
                 (backups'[n] = db /\ db' = db)
       /\ RestoreStep => (db' = backups[run'.backup_file] /\ backups' = backups)]_vars

\* A restore brought back a snapshot that differs from a later snapshot: the
\* store had changed between the two.
C23_Witness ==
    /\ pc = "returned"
    /\ "command" \in DOMAIN run
    /\ run.command = "restore"
    /\ db = backups[run.backup_file]
    /\ \E m \in DOMAIN backups : backups[m] # db /\ backups[m].isotherms # db.isotherms

\* C24: no step of a sync run, backfill, backup, restore or material operation
\* changes or removes a backup file that exists, and every snapshot a sync run
\* or a backup command takes is a new file, given one command per second.
C24_SnapshotsAreImmutable ==
    [][/\ \A n \in DOMAIN backups : n \in DOMAIN backups' /\ backups'[n] = backups[n]
       /\ (\/ pc = "sync_tables" /\ pc' = "apply"
           \/ clock' # clock /\ "command" \in DOMAIN run' /\ run'.command = "backup")
          => Cardinality(DOMAIN backups') = Cardinality(DOMAIN backups) + 1]_vars

\* A sync run took its snapshot next to an earlier snapshot of other content.
C24_Witness ==
    /\ InSync
    /\ pc = "returned"
    /\ run.result.backup_path # None
    /\ \E n \in DOMAIN run.backups0 : backups[n] # backups[run.result.backup_path]

\* Sequence s is a prefix of sequence t.
IsPrefix(s, t) == Len(s) <= Len(t) /\ SubSeq(t, 1, Len(s)) = s

\* C25: no step of a sync run, a backfill, a backup or a material operation
\* changes or removes an audit entry: the audit log after the step extends
\* the audit log before it.
C25_AuditLogIsAppendOnly ==
    [][RestoreStep \/ IsPrefix(db.audit_log, db'.audit_log)]_vars

\* A sync run deleted a material whose insert is in the audit log.
C25_Witness ==
    /\ InSync
    /\ pc = "returned"
    /\ run.result.backup_path # None
    /\ run.db0.materials # {}
    /\ db.materials = {}
    /\ Len(db.audit_log) >= 1
    /\ db.audit_log = run.db0.audit_log

(***************************************************************************)
(* Properties of the fingerprint on ordered mappings (SpecDeterminism).    *)
(***************************************************************************)
TrackedFields == {"name", "synonyms", "formula", "category", "isotherm_count"}

\* The value the fingerprint reads for a tracked field.
TrackedValue(items, field) ==
    IF \E i \in DOMAIN items : items[i][1] = field
    THEN items[CHOOSE i \in DOMAIN items : items[i][1] = field][2]
    ELSE IF field = "isotherm_count" THEN 0 ELSE ""

SameTrackedValues ==
    \A field \in TrackedFields :
        TrackedValue(pf.first, field) = TrackedValue(pf.second, field)

\* C26: calculate_checksum gives the same digest on a repeated call, and the
\* same digest for two mappings with equal values in the tracked fields,
\* whatever the order of their keys and whatever their other keys hold.
C26_FingerprintIsDeterministic ==
    /\ pf.calls >= 2 => pf.out[1] = pf.out[2]
    /\ (pf.calls = 3 /\ SameTrackedValues) => pf.out[3] = pf.out[1]

\* Two mappings with the same name and category, in different key order and
\* with different untracked keys, got the same digest.
C26_Witness ==
    /\ pf.calls = 3
    /\ SameTrackedValues
    /\ Len(pf.first) = 3
    /\ Len(pf.second) = 3
    /\ pf.first[1][1] # pf.second[1][1]
    /\ AsDict(pf.first) # AsDict(pf.second)
    /\ pf.out[3] = pf.out[1]

\* The isotherm-count request of the run failed.
CountsFailed == InSync /\ run.counts_failed

\* The classification of a change set: the keys of its New and Modified
\* records and its Deleted keys (the apply stamps the records in place).
ClassifiedKeys(changes) ==
    [new      |-> [n \in DOMAIN changes.new |-> changes.new[n][changes.id_column]],
     modified |-> [n \in DOMAIN changes.modified |->
                      changes.modified[n][changes.id_column]],
     deleted  |-> changes.deleted]

\* C27: when the isotherm-count request fails, the materials sync goes on in
\* the same run: the fetched materials (with count 0) are reconciled against
\* the store, the Safety Guard is applied to their change set, and a run that
\* applies leaves the store holding exactly the fetched materials.
C27_EnrichmentIsBestEffort ==
    CountsFailed =>
        /\ run.exc.call # "fetch_isotherms_count"
        /\ run.all_changes # <<>>
        /\ run.all_changes[1].table_name = "materials"
        /\ \A n \in DOMAIN run.fetched[1] : run.fetched[1][n].isotherm_count = 0
        /\ \E local_rows \in get_table_checksums(run.db0, "materials", "material_id") :
              ClassifiedKeys(run.all_changes[1]) =
                  ClassifiedKeys(detect_table_changes(run.fetched[1], "materials",
                                                      "material_id", local_rows))
        /\ LET warning == check_suspicious_changes(run.all_changes[1],
                              get_table_count(run.db0, "materials"),
                              ThresholdNum, ThresholdDen)
           IN  (warning # None /\ ~run.force) =>
                   /\ warning \in Range(run.warnings)
                   /\ db = run.db0
        /\ Applied =>
              {<<r.material_id, r.checksum>> : r \in db.materials} =
              {<<run.fetched[1][n].material_id, run.fetched[1][n].checksum>> :
                  n \in DOMAIN run.fetched[1]}

\* The count request failed, and the run applied a fetched material.
C27_Witness ==
    /\ CountsFailed
    /\ Applied
    /\ run.fetched[1] # <<>>
    /\ run.all_changes[1].new # <<>>
    /\ db.materials # {}

\* C28: while the isotherms change set is applied, no child row exists whose
\* Deleted parent has already been removed: the child rows of a Deleted parent
\* are deleted before the parent row.
C28_ChildrenDeletedBeforeParent ==
    (Applying /\ Current.table_name = "isotherms") =>
        \A filename \in Range(Current.deleted) :
            (\A parent \in db.isotherms : parent.filename # filename) =>
                (\A r \in db.isotherm_data_points : r.isotherm_filename # filename)

\* The place of a collection in the fixed order.
Position(table) == CHOOSE n \in DOMAIN AllTables : AllTables[n] = table

\* The change sets of the run are those of the collections asked for, in the
\* fixed order.
InFixedOrder(r) ==
    /\ \A i, j \in DOMAIN r.all_changes :
          i < j => Position(r.all_changes[i].table_name)
                       < Position(r.all_changes[j].table_name)
    /\ {r.all_changes[i].table_name : i \in DOMAIN r.all_changes} =
          IF r.tables = <<>> THEN Range(AllTables)
          ELSE Range(AllTables) \cap Range(r.tables)

\* C29: the change sets are applied in the order materials, isotherms, gases,
\* bibliography, whatever the order of the names in the tables argument: the
\* apply goes through them in that order and never back, a step writes only
\* the collection it is at, and at a collection with an empty change set it
\* writes nothing.
C29_FixedApplyOrder ==
    [][pc = "apply" =>
          /\ InFixedOrder(run)
          /\ pc' = "apply" =>
                /\ run'.i >= run.i
                /\ run'.tables_to_sync = run.tables_to_sync
          /\ IF Applying
             THEN /\ is_empty(Current) => (db' = db /\ backups' = backups)
                  /\ \A t \in Range(AllTables) :
                        db'[t] # db[t] => t = Current.table_name
                  /\ db'.isotherm_data_points # db.isotherm_data_points =>
                        Current.table_name = "isotherms"
             ELSE \A t \in Range(AllTables) \cup {"isotherm_data_points"} :
                     db'[t] = db[t]]_vars

\* A run for tables = gases, adsorbents, isotherms has applied its isotherms
\* change set and is at its gases change set, neither of them empty.
C29_Witness ==
    /\ Applying
    /\ run.tables = <<"gases", "adsorbents", "isotherms">>
    /\ run.i = 2
    /\ run.all_changes[1].table_name = "isotherms"
    /\ Current.table_name = "gases"
    /\ ~is_empty(run.all_changes[1])
    /\ ~is_empty(Current)
    /\ db.isotherms # run.db0.isotherms
    /\ db.gases = run.db0.gases

(***************************************************************************)
(* src/src/utils.py: rate_limited_get; src/src/scraper.py:                 *)
(* fetch_single_isotherm, batch_fetch_isotherm_data_points.  Time is in    *)
(* whole seconds; a request that takes 0 is over within the second it was  *)
(* issued in.  run.now is time.time(), run.last_request_time the module    *)
(* global, run.issued the times the requests went out at, run.k the parent *)
(* of the batch and run.attempt the attempt fetch_single_isotherm is at.   *)
(***************************************************************************)
MIN_REQUEST_INTERVAL == 1

max_retries == 3

retry_delay == 5

MaxDuration == 1

RateParents == 2

Outcomes == {"response", "http_error", "connection_error"}

\* Lines 23-25: the time the request goes out at, after the sleep if any.
issue_time(r) ==
    LET elapsed == r.now - r.last_request_time
    IN  IF elapsed < MIN_REQUEST_INTERVAL
        THEN r.now + (MIN_REQUEST_INTERVAL - elapsed)
        ELSE r.now

\* rate_limited_get: requests.get returns a response (which raise_for_status
\* may then reject), or raises before the assignment of line 28.
rate_limited_get(r, outcome, duration) ==
    LET done_at == issue_time(r) + duration
    IN  [r EXCEPT !.issued            = Append(@, issue_time(r)),
                  !.now               = done_at,
                  !.last_request_time = IF outcome = "connection_error"
                                        THEN @ ELSE done_at,
                  !.outcome           = outcome]

InRate == "issued" \in DOMAIN run

\* batch_fetch_isotherm_data_points(filenames) in a new process.
BatchFetch ==
    /\ pc = "idle"
    /\ \E n \in 1..RateParents, start \in MIN_REQUEST_INTERVAL..(MIN_REQUEST_INTERVAL + 1) :
          run' = [filenames |-> [k \in 1..n |-> k], k |-> 1, attempt |-> 0,
                  now |-> start, last_request_time |-> 0, issued |-> <<>>,
                  outcome |-> "none", failed |-> <<>>]
    /\ pc' = "fetch_single"
    /\ UNCHANGED <<upstream, db, backups, clock, pf>>

\* Line 175 of fetch_single_isotherm.
RateLimitedGet ==
    /\ pc = "fetch_single"
    /\ run.k <= Len(run.filenames)
    /\ \E outcome \in Outcomes, duration \in 0..MaxDuration :
          run' = rate_limited_get(run, outcome, duration)
    /\ pc' = "requested"
    /\ UNCHANGED <<upstream, db, backups, clock, pf>>

\* Lines 176-177: the isotherm is returned, and the batch goes to its next
\* parent.
ReturnIsotherm ==
    /\ pc = "requested"
    /\ run.outcome = "response"
    /\ run' = [run EXCEPT !.k = @ + 1, !.attempt = 0]
    /\ pc' = "fetch_single"
    /\ UNCHANGED <<upstream, db, backups, clock, pf>>

\* Lines 178-180: a requests.RequestException before the last attempt.
RetrySleep ==
    /\ pc = "requested"
    /\ run.outcome # "response"
    /\ run.attempt < max_retries - 1
    /\ run' = [run EXCEPT !.now = @ + retry_delay, !.attempt = @ + 1]
    /\ pc' = "fetch_single"
    /\ UNCHANGED <<upstream, db, backups, clock, pf>>

\* Lines 181-183: the last attempt failed; None is returned at once, and the
\* batch records the failure and goes to its next parent.
ReturnNone ==
    /\ pc = "requested"
    /\ run.outcome # "response"
    /\ run.attempt = max_retries - 1
    /\ run' = [run EXCEPT !.failed = Append(@, run.filenames[run.k]),
                          !.k = @ + 1, !.attempt = 0]
    /\ pc' = "fetch_single"
    /\ UNCHANGED <<upstream, db, backups, clock, pf>>

\* Line 228: the batch returns.
BatchReturns ==
    /\ pc = "fetch_single"
    /\ run.k > Len(run.filenames)
    /\ pc' = "returned"
    /\ UNCHANGED <<upstream, db, backups, clock, run, pf>>

InitRate ==
    /\ upstream = "isotherm"
    /\ db = init_db
    /\ backups = EmptyDict
    /\ clock = 0
    /\ pc = "idle"
    /\ run = NoRun
    /\ pf = Idle

NextRate ==
    \/ BatchFetch
    \/ RateLimitedGet
    \/ ReturnIsotherm
    \/ RetrySleep
    \/ ReturnNone
    \/ BatchReturns

SpecRate == InitRate /\ [][NextRate]_vars

\* C30: any two consecutive requests sent through rate_limited_get go out at
\* least MIN_REQUEST_INTERVAL apart, also after a request that failed with a
\* connection error or a timeout, across the retries of a parent and from one
\* parent of a batch to the next.
C30_RequestsAreSpaced ==
    InRate =>
        \A n \in 1..(Len(run.issued) - 1) :
            run.issued[n + 1] - run.issued[n] >= MIN_REQUEST_INTERVAL

\* The requests of the run that got an isotherm, as positions of run.requested.
FetchedInRun == {k \in DOMAIN run.requested : DOMAIN run.responses[k] # {}}

\* C31: at whatever point a backfill run is interrupted, every parent fetched
\* in a batch completed before has its child rows stored and its marker set,
\* so a restarted run (without force_refetch) does not request it again; the
\* fetched parents left unmarked are parents of the batch in progress, at
\* most batch_size of them.
C31_CompletedBatchesAreKept ==
    InBackfill =>
        /\ \A k \in FetchedInRun \cap Completed :
              /\ run.requested[k] \in MarkedFetched(db)
              /\ \E r \in db.isotherm_data_points :
                    r.isotherm_filename = run.requested[k]
              /\ \A limit \in 0..MaxParents :
                    run.requested[k] \notin Range(get_unfetched_isotherms(db, limit))
        /\ LET redone == {k \in FetchedInRun : run.requested[k] \notin MarkedFetched(db)}
           IN  /\ redone \cap Completed = {}
               /\ Cardinality(redone) <= run.batch_size

\* A run interrupted in its second batch, after the insert of the batch's
\* child rows and before the marking: the parents of the first batch are
\* marked, the parent of the second is not.
C31_Witness ==
    /\ pc = "raised"
    /\ InBackfill
    /\ "requested" \in DOMAIN run
    /\ FetchedInRun \cap Completed # {}
    /\ \E k \in FetchedInRun \ Completed :
          /\ run.requested[k] \notin MarkedFetched(db)
          /\ \E r \in db.isotherm_data_points : r.isotherm_filename = run.requested[k]

\* The mapping identity key -> checksum of a collection of the store, and of
\* a fetched collection, as sets of pairs.
LocalMapping(d, table) == {<<r[id_column(table)], r.checksum>> : r \in d[table]}

FetchedMapping(records, table) ==
    {<<records[n][id_column(table)], records[n].checksum>> : n \in DOMAIN records}

\* The run returned success, and was not a dry run.
Done == pc = "returned" /\ InSync /\ run.result.success /\ ~run.dry_run

\* C32: after a sync run that reaches Done, every synced collection of the
\* store has the keys of the fetched collection and, for every key, the
\* fetched checksum.
C32_ConvergesToTheMirror ==
    Done =>
        \A i \in DOMAIN run.fetched :
            NoDup([n \in DOMAIN run.fetched[i] |->
                      run.fetched[i][n][id_column(run.tables_to_sync[i])]]) =>
                LocalMapping(db, run.tables_to_sync[i]) =
                    FetchedMapping(run.fetched[i], run.tables_to_sync[i])

\* A run that reached Done from a store whose isotherms differed from the
\* fetched ones in a key and in a checksum.
C32_Witness ==
    /\ Done
    /\ Applied
    /\ \E i \in DOMAIN run.all_changes :
          /\ run.all_changes[i].modified # <<>>
          /\ run.all_changes[i].new # <<>>
          /\ LocalMapping(run.db0, run.tables_to_sync[i]) #
                 FetchedMapping(run.fetched[i], run.tables_to_sync[i])

\* The parents of the store that the change set lists neither as New, nor as
\* Modified, nor as Deleted.
UnchangedParents(d, changes) ==
    {r.filename : r \in d.isotherms} \
        ({changes.new[k].filename : k \in DOMAIN changes.new}
            \cup {changes.modified[k].filename : k \in DOMAIN changes.modified}
            \cup Range(changes.deleted))

\* C33: the apply of an isotherms change set leaves the child rows of every
\* parent that is neither New, Modified nor Deleted as they were before the
\* run: the same rows, in number and content.
C33_UnchangedParentsKeepChildRows ==
    \A i \in DOMAIN run.all_changes :
        IsothermsApplied(i) =>
            \A filename \in UnchangedParents(run.db0, run.all_changes[i]) :
                StoredPoints(db, filename) = StoredPoints(run.db0, filename)

\* Every collection of the run was reconciled, and every change set is empty.
NothingToApply ==
    /\ InSync
    /\ Len(run.all_changes) = Len(run.tables_to_sync)
    /\ SumChanges(run.all_changes) = 0

\* C34: a sync run in which the change set of every synced collection is
\* empty takes no snapshot, writes no row of any collection, leaves the
\* last-sync marker as it was, never enters the apply, and returns
\* success = true.
C34_NoChangesNoWrites ==
    NothingToApply =>
        /\ db = run.db0
        /\ db.last_sync = run.db0.last_sync
        /\ backups = run.backups0
        /\ ~SnapshotTaken
        /\ pc \in {"sync_tables", "returned"}
        /\ pc = "returned" =>
              /\ run.result.success = TRUE
              /\ run.result.error = None
              /\ exit_code = 0

\* A run without dry_run on a store that holds what was fetched returned with
\* nothing to apply; the marker is that of the earlier run.
C34_Witness ==
    /\ NothingToApply
    /\ pc = "returned"
    /\ ~run.dry_run
    /\ db.isotherms # {}
    /\ db.last_sync # None
    /\ db.last_sync # Timestamp(clock)
    /\ \E i \in DOMAIN run.fetched : run.fetched[i] # <<>>

\* The fetched materials are the stored ones: the same keys, and for each key
\* the same name, synonyms, formula and category.
MaterialsUnchangedUpstream ==
    /\ {run.fetched[1][n].material_id : n \in DOMAIN run.fetched[1]} =
           {q.material_id : q \in run.db0.materials}
    /\ \A n \in DOMAIN run.fetched[1] :
          \E q \in run.db0.materials :
              /\ q.material_id = run.fetched[1][n].material_id
              /\ \A f \in {"name", "synonyms", "formula", "category"} :
                    q[f] = run.fetched[1][n][f]

\* C35: when the isotherm-count request fails and no material changed
\* upstream, no material is classified Modified and no stored isotherm_count
\* is overwritten.
C35_FailedEnrichmentChangesNoMaterial ==
    (CountsFailed /\ run.all_changes # <<>> /\ MaterialsUnchangedUpstream) =>
        /\ run.all_changes[1].modified = <<>>
        /\ \A r \in db.materials :
              \E q \in run.db0.materials :
                  q.material_id = r.material_id /\ q.isotherm_count = r.isotherm_count

\* C36: a sync run leaves the data_fetched marker of every isotherm that
\* stays in the store as it found it: a marker set by a backfill is still
\* set, whether the run has the isotherm as New, Modified or unchanged.
C36_SyncKeepsFetchedMarker ==
    InSync =>
        \A r \in run.db0.isotherms :
            ("data_fetched" \in DOMAIN r /\ r.data_fetched = 1) =>
                \A q \in db.isotherms :
                    q.filename = r.filename => q.data_fetched = 1

\* C37: after a backfill, every parent fetched in a completed batch of the
\* run has exactly one copy of the child rows that were fetched for it.
C37_BackfillNeverDuplicatesChildRows ==
    InBackfill =>
        \A k \in FetchedInRun \cap Completed :
            LET fetched_points == extract_data_points(run.responses[k])
            IN  PressuresById(StoredPoints(db, run.requested[k])) =
                    [n \in DOMAIN fetched_points |-> fetched_points[n].pressure]

\* C38: a run with dry_run = true and force = false in which the Safety Guard
\* warned for some collection returns blocked (success = false, the warning
\* text as error, a non-zero exit code), not as a successful dry run, and its
\* result still holds the change set of every synced collection.
C38_GuardPrecedesDryRun ==
    (pc = "returned" /\ InSync /\ run.dry_run /\ ~run.force /\ GuardWarnings # <<>>) =>
        /\ run.result.success = FALSE
        /\ run.result.error = JoinWarnings(GuardWarnings)
        /\ exit_code # 0
        /\ Len(table_changes(run)) = Len(run.tables_to_sync)
        /\ \A i \in DOMAIN run.tables_to_sync :
              LET table == run.tables_to_sync[i]
              IN  /\ table_changes(run)[i].table_name = table
                  /\ \E local_rows \in get_table_checksums(run.db0, table, id_column(table)) :
                        ClassifiedKeys(table_changes(run)[i]) =
                            ClassifiedKeys(detect_table_changes(run.fetched[i], table,
                                               id_column(table), local_rows))

\* A dry run in which the isotherms change set tripped the guard, with
\* another record New in the same run.
C38_Witness ==
    /\ pc = "returned"
    /\ InSync
    /\ run.dry_run
    /\ ~run.force
    /\ run.result.success = FALSE
    /\ \E i \in DOMAIN run.all_changes : TripsGuard(i)
    /\ \E i \in DOMAIN run.all_changes : run.all_changes[i].new # <<>>

\* C39: in a run with a non-empty tables list only the collections named in
\* it are fetched, reconciled, guarded and applied, a name that is no known
\* collection is ignored, and the rows of every other collection (and the
\* child rows, when isotherms is not named) are as they were before the run.
C39_TablesRestrictionIsAFrame ==
    (InSync /\ run.tables # <<>>) =>
        /\ Range(run.tables_to_sync) = Range(run.tables) \cap Range(AllTables)
        /\ Len(run.fetched) = Len(run.all_changes)
        /\ Len(run.all_changes) <= Len(run.tables_to_sync)
        /\ \A i \in DOMAIN run.all_changes :
              /\ run.all_changes[i].table_name = run.tables_to_sync[i]
              /\ run.all_changes[i].table_name \in Range(run.tables)
        /\ Len(GuardWarnings) = Len(run.warnings) \/ run.force
        /\ "materials" \notin Range(run.tables) => ~run.counts_failed
        /\ \A t \in Range(AllTables) \ Range(run.tables) : db[t] = run.db0[t]
        /\ "isotherms" \notin Range(run.tables) =>
              db.isotherm_data_points = run.db0.isotherm_data_points

\* A run for tables = gases, adsorbents, isotherms applied changes to gases
\* and isotherms; the store holds no material and no bibliography entry.
C39_Witness ==
    /\ Applied
    /\ "adsorbents" \in Range(run.tables)
    /\ run.tables_to_sync = <<"isotherms", "gases">>
    /\ db.gases # run.db0.gases
    /\ db.isotherms # run.db0.isotherms
    /\ db.materials = run.db0.materials
    /\ db.bibliography = run.db0.bibliography

====
